---- MODULE Spec2Model ----
(***************************************************************************)
(* Model of the evaluation harness of bielik-m-poc (test-dataset.py):      *)
(* the retry-driven SymPy execution/repair controller and test_question.   *)
(* Program texts, stderr and stdout are strings; the regular expressions   *)
(* of the source are translated to scanners over those strings.            *)
(***************************************************************************)
EXTENDS Integers, Sequences, FiniteSets, TLC

\* ------------------------------------------------------------------------
\* Text primitives (Python str / re semantics over the ASCII alphabet)
\* ------------------------------------------------------------------------

\* s[i] for a 1-based position of the text s
Ch(s, i) == SubSeq(s, i, i)

\* the characters matched by \w (ASCII part)
WordChars ==
    {"a","b","c","d","e","f","g","h","i","j","k","l","m","n","o","p","q","r",
     "s","t","u","v","w","x","y","z","A","B","C","D","E","F","G","H","I","J",
     "K","L","M","N","O","P","Q","R","S","T","U","V","W","X","Y","Z","0","1",
     "2","3","4","5","6","7","8","9","_"}

\* the characters matched by \s (those of the texts modelled)
SpaceChars == {" ", "\n", "\t"}

IsWord(s, i) == i >= 1 /\ i <= Len(s) /\ Ch(s, i) \in WordChars

IsSpace(s, i) == i >= 1 /\ i <= Len(s) /\ Ch(s, i) \in SpaceChars

\* the literal lit occurs in s at position i
StartsAt(s, i, lit) ==
    /\ i >= 1
    /\ i + Len(lit) - 1 <= Len(s)
    /\ SubSeq(s, i, i + Len(lit) - 1) = lit

\* Python: lit in s
Contains(s, lit) == \E i \in 1..Len(s) : StartsAt(s, i, lit)

\* Python: s.startswith(lit)
StartsWith(s, lit) == StartsAt(s, 1, lit)

\* the least / greatest element of a non-empty set of integers
Min(S) == CHOOSE x \in S : \A y \in S : x <= y

Max(S) == CHOOSE x \in S : \A y \in S : y <= x

\* end (exclusive) of the longest run of \w characters starting at i
WordEnd(s, i) == Min({j \in i..(Len(s) + 1) : ~IsWord(s, j)})

\* end (exclusive) of the longest run of \s characters starting at i
SpaceEnd(s, i) == Min({j \in i..(Len(s) + 1) : ~IsSpace(s, j)})

\* end (exclusive) of the longest run of characters other than c starting at i
RunUntil(s, i, c) == Min({j \in i..(Len(s) + 1) : j > Len(s) \/ Ch(s, j) = c})

\* end (exclusive) of the line that holds position i ('.' matches up to here)
LineEnd(s, i) == RunUntil(s, i, "\n")

\* Python: s.replace(old, new), from position i on (one step per occurrence)
RECURSIVE ReplaceFrom(_, _, _, _)
ReplaceFrom(s, i, old, new) ==
    LET hits == {j \in i..Len(s) : StartsAt(s, j, old)}
    IN  IF hits = {} THEN SubSeq(s, i, Len(s))
        ELSE SubSeq(s, i, Min(hits) - 1) \o new
             \o ReplaceFrom(s, Min(hits) + Len(old), old, new)

str_replace(s, old, new) == ReplaceFrom(s, 1, old, new)

\* Python: s.strip()
str_strip(s) ==
    LET keep == {j \in 1..Len(s) : ~IsSpace(s, j)}
    IN  IF keep = {} THEN "" ELSE SubSeq(s, Min(keep), Max(keep))

\* Python: s.split('\n'), from position i on (one step per line)
RECURSIVE SplitFrom(_, _)
SplitFrom(s, i) ==
    LET e == LineEnd(s, i)
    IN  IF e > Len(s) THEN << SubSeq(s, i, Len(s)) >>
        ELSE << SubSeq(s, i, e - 1) >> \o SplitFrom(s, e + 1)

str_split(s) == SplitFrom(s, 1)

\* Python: '\n'.join(lines)
RECURSIVE str_join(_)
str_join(lines) ==
    IF Len(lines) = 0 THEN ""
    ELSE IF Len(lines) = 1 THEN lines[1]
    ELSE lines[1] \o "\n" \o str_join(Tail(lines))

\* Python: s[:n]
Prefix(s, n) == IF Len(s) <= n THEN s ELSE SubSeq(s, 1, n)

\* ------------------------------------------------------------------------
\* _fix_code_from_error: the repair rules
\* ------------------------------------------------------------------------

\* line.strip().startswith('from ') or line.strip().startswith('import ')
IsImportLine(line) ==
    StartsWith(str_strip(line), "from ") \/ StartsWith(str_strip(line), "import ")

\* re.search(r"NameError: name '(\w+)' is not defined", error_msg) at position i
NameErrorAt(error_msg, i) ==
    LET lit == "NameError: name '"
        a == i + Len(lit)
        b == WordEnd(error_msg, a)
    IN  /\ StartsAt(error_msg, i, lit)
        /\ b > a
        /\ StartsAt(error_msg, b, "' is not defined")

HasNameError(error_msg) == \E i \in 1..Len(error_msg) : NameErrorAt(error_msg, i)

\* name_match.group(1) of the leftmost match
MissingName(error_msg) ==
    LET i == Min({k \in 1..Len(error_msg) : NameErrorAt(error_msg, k)})
        a == i + Len("NameError: name '")
    IN  SubSeq(error_msg, a, WordEnd(error_msg, a) - 1)

\* lines.insert(k, x) for a 0-based index k
ListInsert(lines, k, x) ==
    SubSeq(lines, 1, k) \o << x >> \o SubSeq(lines, k + 1, Len(lines))

\* Fix 1: NameError: add the missing symbol definition after the imports
Fix1(fixed, error_msg) ==
    IF HasNameError(error_msg)
    THEN LET missing == MissingName(error_msg)
             lines == str_split(fixed)
             imports == {i \in 1..Len(lines) : IsImportLine(lines[i])}
             insert_idx == IF imports = {} THEN 0
                           ELSE Max(imports)
         IN  str_join(ListInsert(lines, insert_idx,
                                 missing \o " = symbols('" \o missing \o "')"))
    ELSE fixed

\* r'(\w+)\s*=\s*solve\(([^)]+)\)\[0\]' matched at position i: the end
\* (exclusive) of the match, 0 when there is none
SolveIdxEnd(s, i) ==
    LET we == WordEnd(s, i)
        eq == SpaceEnd(s, we)
        sv == SpaceEnd(s, eq + 1)
        a  == sv + Len("solve(")
        b  == RunUntil(s, a, ")")
    IN  IF /\ we > i
           /\ StartsAt(s, eq, "=")
           /\ StartsAt(s, sv, "solve(")
           /\ b > a
           /\ StartsAt(s, b, ")[0]")
        THEN b + Len(")[0]")
        ELSE 0

\* r'_sols = solve(\2)\n\1 = _sols[0] if _sols else None'
SolveIdxRepl(s, i) ==
    LET we == WordEnd(s, i)
        sv == SpaceEnd(s, SpaceEnd(s, we) + 1)
        a  == sv + Len("solve(")
        b  == RunUntil(s, a, ")")
    IN  "_sols = solve(" \o SubSeq(s, a, b - 1) \o ")\n"
        \o SubSeq(s, i, we - 1) \o " = _sols[0] if _sols else None"

RECURSIVE SubSolveIdx(_, _)
SubSolveIdx(s, i) ==
    LET hits == {j \in i..Len(s) : SolveIdxEnd(s, j) # 0}
    IN  IF hits = {} THEN SubSeq(s, i, Len(s))
        ELSE SubSeq(s, i, Min(hits) - 1) \o SolveIdxRepl(s, Min(hits))
             \o SubSolveIdx(s, SolveIdxEnd(s, Min(hits)))

\* r'(\w+)\[0\]' matched at position i
ZeroIdxEnd(s, i) ==
    LET we == WordEnd(s, i)
    IN  IF we > i /\ StartsAt(s, we, "[0]") THEN we + Len("[0]") ELSE 0

\* r'(\1[0] if \1 else None)'
ZeroIdxRepl(s, i) ==
    LET w == SubSeq(s, i, WordEnd(s, i) - 1)
    IN  "(" \o w \o "[0] if " \o w \o " else None)"

RECURSIVE SubZeroIdx(_, _)
SubZeroIdx(s, i) ==
    LET hits == {j \in i..Len(s) : ZeroIdxEnd(s, j) # 0}
    IN  IF hits = {} THEN SubSeq(s, i, Len(s))
        ELSE SubSeq(s, i, Min(hits) - 1) \o ZeroIdxRepl(s, Min(hits))
             \o SubZeroIdx(s, ZeroIdxEnd(s, Min(hits)))

\* the guarded-indexing rule left out
Fix2_Skipped(fixed, error_msg) == fixed

\* Fix 2: IndexError on solve()[0]: safe indexing, then every name[0]
Fix2(fixed, error_msg) ==
    IF Contains(error_msg, "IndexError: list index out of range")
    THEN SubZeroIdx(SubSolveIdx(fixed, 1), 1)
    ELSE fixed

\* r'for\s+\w+\s+in\s+(\w+)' matched at position i
ForInEnd(s, i) ==
    LET a  == i + Len("for")
        v  == SpaceEnd(s, a)
        ve == WordEnd(s, v)
        n  == SpaceEnd(s, ve)
        b  == n + Len("in")
        t  == SpaceEnd(s, b)
        te == WordEnd(s, t)
    IN  IF /\ StartsAt(s, i, "for")
           /\ v > a /\ ve > v /\ n > ve
           /\ StartsAt(s, n, "in")
           /\ t > b /\ te > t
        THEN te
        ELSE 0

\* r'for _item in ([\1] if not hasattr(\1, "__iter__") else \1)'
ForInRepl(s, i) ==
    LET v == SpaceEnd(s, i + Len("for"))
        n == SpaceEnd(s, WordEnd(s, v))
        t == SpaceEnd(s, n + Len("in"))
        w == SubSeq(s, t, WordEnd(s, t) - 1)
    IN  "for _item in ([" \o w \o "] if not hasattr(" \o w
        \o ", \"__iter__\") else " \o w \o ")"

RECURSIVE SubForIn(_, _)
SubForIn(s, i) ==
    LET hits == {j \in i..Len(s) : ForInEnd(s, j) # 0}
    IN  IF hits = {} THEN SubSeq(s, i, Len(s))
        ELSE SubSeq(s, i, Min(hits) - 1) \o ForInRepl(s, Min(hits))
             \o SubForIn(s, ForInEnd(s, Min(hits)))

\* Fix 3: 'And'/'Or' object is not subscriptable/iterable
Fix3(fixed, error_msg) ==
    IF /\ Contains(error_msg, "'And' object") \/ Contains(error_msg, "'Or' object")
       /\ \/ Contains(error_msg, "is not subscriptable")
          \/ Contains(error_msg, "is not iterable")
    THEN SubForIn(fixed, 1)
    ELSE fixed

\* Fix 4: wrong import names (applied whatever the error message is)
Fix4(fixed) ==
    str_replace(str_replace(fixed, "from sympy import Simplify",
                                   "from sympy import simplify"),
                "from sympy import Greater", "from sympy import Gt")

\* the tail r'\s*==\s*(.+)' of the Fix 5 pattern, tried at position e:
\* the start of group 3 (0 when the tail does not match).  \s* gives back
\* blanks until '.+' finds a character of its own.
EqTailStart(s, e) ==
    LET t == SpaceEnd(s, e)
        u == t + Len("==")
        starts == {v \in u..SpaceEnd(s, u) : v <= Len(s) /\ Ch(s, v) # "\n"}
    IN  IF StartsAt(s, t, "==") /\ starts # {}
        THEN Max(starts)
        ELSE 0

\* r'(\w+)\s*=\s*(.+?)\s*==\s*(.+)' matched at position i: the candidate
\* <<start of group 2, end of group 2>> pairs, in no order
EqAssignCands(s, i) ==
    LET we == WordEnd(s, i)
        eq == SpaceEnd(s, we)
        p  == eq + 1
    IN  IF we > i /\ StartsAt(s, eq, "=")
        THEN {c \in (p..SpaceEnd(s, p)) \X (p..(Len(s) + 1)) :
                 /\ c[2] > c[1]
                 /\ c[2] <= LineEnd(s, c[1])
                 /\ EqTailStart(s, c[2]) # 0}
        ELSE {}

\* the pair the backtracking search finds first: the longest \s* after '=',
\* then the shortest lazy group 2
EqAssignPick(s, i) ==
    CHOOSE c \in EqAssignCands(s, i) :
        \A d \in EqAssignCands(s, i) :
            \/ d[1] < c[1]
            \/ d[1] = c[1] /\ d[2] >= c[2]

EqAssignEnd(s, i) ==
    IF EqAssignCands(s, i) = {} THEN 0
    ELSE LineEnd(s, EqTailStart(s, EqAssignPick(s, i)[2]))

\* r'\1 = Eq(\2, \3)'
EqAssignRepl(s, i) ==
    LET c == EqAssignPick(s, i)
        v == EqTailStart(s, c[2])
    IN  SubSeq(s, i, WordEnd(s, i) - 1) \o " = Eq("
        \o SubSeq(s, c[1], c[2] - 1) \o ", "
        \o SubSeq(s, v, LineEnd(s, v) - 1) \o ")"

RECURSIVE SubEqAssign(_, _)
SubEqAssign(s, i) ==
    LET hits == {j \in i..Len(s) : EqAssignEnd(s, j) # 0}
    IN  IF hits = {} THEN SubSeq(s, i, Len(s))
        ELSE SubSeq(s, i, Min(hits) - 1) \o EqAssignRepl(s, Min(hits))
             \o SubEqAssign(s, EqAssignEnd(s, Min(hits)))

\* Fix 5: 'bool' object has no attribute 'subs': == becomes Eq()
Fix5(fixed, error_msg) ==
    IF Contains(error_msg, "'bool' object has no attribute 'subs'")
    THEN SubEqAssign(fixed, 1)
    ELSE fixed

\* r'(\w+)\[(\w+)\](?!\s*if)' matched at position i
NameIdxEnd(s, i) ==
    LET we == WordEnd(s, i)
        a  == we + 1
        b  == WordEnd(s, a)
    IN  IF /\ we > i
           /\ StartsAt(s, we, "[")
           /\ b > a
           /\ StartsAt(s, b, "]")
           /\ ~StartsAt(s, SpaceEnd(s, b + 1), "if")
        THEN b + 1
        ELSE 0

\* re.sub(..., r'\1[0]', fixed, count=1): only the leftmost match
SubNameIdxOnce(s) ==
    LET hits == {i \in 1..Len(s) : NameIdxEnd(s, i) # 0}
    IN  IF hits = {} THEN s
        ELSE LET i == Min(hits)
             IN  SubSeq(s, 1, WordEnd(s, i) - 1) \o "[0]"
                 \o SubSeq(s, NameIdxEnd(s, i), Len(s))

\* Fix 6: tuple/list indices must be integers
Fix6(fixed, error_msg) ==
    IF \/ Contains(error_msg, "tuple indices must be integers")
       \/ Contains(error_msg, "list indices must be integers")
    THEN SubNameIdxOnce(fixed)
    ELSE fixed

\* Fix 7: Pi (capitalized) not defined
Fix7(fixed, error_msg) ==
    IF Contains(error_msg, "name 'Pi' is not defined")
    THEN str_replace(fixed, "Pi", "pi")
    ELSE fixed

\* re.match(r'^(\w+)\s*=', lines[i].strip()): group 1, "" when no match
AssignedName(line) ==
    LET t  == str_strip(line)
        we == WordEnd(t, 1)
    IN  IF we > 1 /\ StartsAt(t, SpaceEnd(t, we), "=")
        THEN SubSeq(t, 1, we - 1)
        ELSE ""

\* Fix N: ensure a print statement exists (applied whatever the error is)
FixN(fixed) ==
    IF ~Contains(fixed, "print(")
    THEN LET lines == str_split(str_strip(fixed))
             assigns == {i \in 1..Len(lines) :
                            AssignedName(lines[i]) # "" /\ ~IsImportLine(lines[i])}
         IN  IF assigns = {} THEN str_join(lines)
             ELSE LET i == Max(assigns)
                  IN  str_join(Append(lines,
                          "print(\"ODPOWIEDZ:\", " \o AssignedName(lines[i]) \o ")"))
    ELSE fixed

\* _fix_code_from_error(code, error_msg): every rule whose condition holds is
\* applied, in the order of the source
_fix_code_from_error(code, error_msg) ==
    FixN(Fix7(Fix6(Fix5(Fix4(Fix3(Fix2(Fix1(code, error_msg), error_msg),
                                  error_msg)), error_msg), error_msg), error_msg))

\* ------------------------------------------------------------------------
\* _sanitize_code
\* ------------------------------------------------------------------------

\* Python: [x for x in seq if keep(x)] for the keep sets the source uses
RECURSIVE DropAsserts(_)
DropAsserts(lines) ==
    IF Len(lines) = 0 THEN << >>
    ELSE IF StartsWith(str_strip(Head(lines)), "assert ")
         THEN DropAsserts(Tail(lines))
         ELSE << Head(lines) >> \o DropAsserts(Tail(lines))

\* re.sub(r'(\w)\^(\w)', r'\1**\2', line), one step per match
RECURSIVE SubCaretWW(_, _)
SubCaretWW(s, i) ==
    LET hits == {j \in i..Len(s) :
                    IsWord(s, j) /\ StartsAt(s, j + 1, "^") /\ IsWord(s, j + 2)}
    IN  IF hits = {} THEN SubSeq(s, i, Len(s))
        ELSE SubSeq(s, i, Min(hits)) \o "**" \o Ch(s, Min(hits) + 2)
             \o SubCaretWW(s, Min(hits) + 3)

\* re.sub(r'\)\^(\w)', r')**\1', line)
RECURSIVE SubCaretPW(_, _)
SubCaretPW(s, i) ==
    LET hits == {j \in i..Len(s) : StartsAt(s, j, ")^") /\ IsWord(s, j + 2)}
    IN  IF hits = {} THEN SubSeq(s, i, Len(s))
        ELSE SubSeq(s, i, Min(hits)) \o "**" \o Ch(s, Min(hits) + 2)
             \o SubCaretPW(s, Min(hits) + 3)

\* re.sub(r'(\w)\^\(', r'\1**(', line)
RECURSIVE SubCaretWP(_, _)
SubCaretWP(s, i) ==
    LET hits == {j \in i..Len(s) : IsWord(s, j) /\ StartsAt(s, j + 1, "^(")}
    IN  IF hits = {} THEN SubSeq(s, i, Len(s))
        ELSE SubSeq(s, i, Min(hits)) \o "**("
             \o SubCaretWP(s, Min(hits) + 3)

\* Fix ^ -> ** on a line that is neither a comment nor starts with a quote
FixCarets(line) ==
    LET t == str_strip(line)
    IN  IF StartsWith(t, "#") \/ StartsWith(t, "\"") \/ StartsWith(t, "'")
        THEN line
        ELSE SubCaretWP(SubCaretPW(SubCaretWW(line, 1), 1), 1)

\* import_fixes, in the insertion order of the dict
import_fixes ==
    << <<"Simplify", "simplify">>, <<"Greater", "Gt">>, <<"Less", "Lt">>,
       <<"GreaterEqual", "Ge">>, <<"LessEqual", "Le">> >>

\* for old, new in import_fixes.items(): if old in line: line = line.replace(..)
RECURSIVE ApplyImportFixes(_, _)
ApplyImportFixes(line, k) ==
    IF k > Len(import_fixes) THEN line
    ELSE ApplyImportFixes(
             IF Contains(line, import_fixes[k][1])
             THEN str_replace(line, import_fixes[k][1], import_fixes[k][2])
             ELSE line,
             k + 1)

_sanitize_code(code) ==
    LET lines == DropAsserts(str_split(code))
    IN  str_join([k \in 1..Len(lines) |->
                     ApplyImportFixes(FixCarets(lines[k]), 1)])

\* ------------------------------------------------------------------------
\* extract_answer_from_output
\* ------------------------------------------------------------------------

\* the value None
None == "<None>"

UpperChars ==
    <<"A","B","C","D","E","F","G","H","I","J","K","L","M","N","O","P","Q","R",
      "S","T","U","V","W","X","Y","Z">>

LowerChars ==
    <<"a","b","c","d","e","f","g","h","i","j","k","l","m","n","o","p","q","r",
      "s","t","u","v","w","x","y","z">>

\* c.lower() for one character
LowerCh(c) ==
    IF \E k \in 1..Len(UpperChars) : UpperChars[k] = c
    THEN LowerChars[CHOOSE k \in 1..Len(UpperChars) : UpperChars[k] = c]
    ELSE c

\* s.lower() == lit, for a lower-case literal
LowerEquals(s, lit) ==
    Len(s) = Len(lit) /\ \A k \in 1..Len(s) : LowerCh(Ch(s, k)) = Ch(lit, k)

\* the literal (lower case) occurs in s at position i, ignoring case
StartsAtIC(s, i, lit) ==
    /\ i + Len(lit) - 1 <= Len(s)
    /\ LowerEquals(SubSeq(s, i, i + Len(lit) - 1), lit)

\* answer.lower() in ('none', 'null', '[]', '{}', '')
IsNoneToken(s) == \E t \in {"none", "null", "[]", "{}", ""} : LowerEquals(s, t)

\* r'\s*(.+)' tried at position a: the start of the group (0: no match)
ValueStart(s, a) ==
    LET starts == {v \in a..SpaceEnd(s, a) : v <= Len(s) /\ Ch(s, v) # "\n"}
    IN  IF starts = {} THEN 0 ELSE Max(starts)

\* re.search(r'ODPOWIED[ZŹ]:\s*(.+)', output, re.IGNORECASE) at position i
\* (the texts modelled are ASCII: the accented spelling is outside them)
LabelAt(output, i) ==
    /\ StartsAtIC(output, i, "odpowiedz:")
    /\ ValueStart(output, i + Len("odpowiedz:")) # 0

\* re.sub(r'^\[(.+)\]$', r'\1', answer)
UnwrapList(answer) ==
    IF /\ Len(answer) >= 3
       /\ StartsWith(answer, "[")
       /\ Ch(answer, Len(answer)) = "]"
       /\ LineEnd(answer, 2) >= Len(answer)
    THEN SubSeq(answer, 2, Len(answer) - 1)
    ELSE answer

\* re.match(r'^\{(?:\w+:\s*)?(.+?)\}$', answer): the start of group 1
\* (0: no match); the optional key is tried first, its \s* longest first
UnwrapDictStart(answer) ==
    LET n  == Len(answer)
        we == WordEnd(answer, 2)
        withKey == IF we > 2 /\ StartsAt(answer, we, ":")
                   THEN {v \in (we + 1)..SpaceEnd(answer, we + 1) :
                            v <= n - 1 /\ LineEnd(answer, v) >= n}
                   ELSE {}
    IN  IF ~(n >= 2 /\ StartsWith(answer, "{") /\ Ch(answer, n) = "}") THEN 0
        ELSE IF withKey # {} THEN Max(withKey)
        ELSE IF n >= 3 /\ LineEnd(answer, 2) >= n THEN 2
        ELSE 0

UnwrapDict(answer) ==
    IF UnwrapDictStart(answer) = 0 THEN answer
    ELSE SubSeq(answer, UnwrapDictStart(answer), Len(answer) - 1)

\* re.search(r'[-\d.*/()a-z]', line, re.IGNORECASE)
HasValueChar(line) ==
    \E k \in 1..Len(line) :
        \/ Ch(line, k) \in {"-", ".", "*", "/", "(", ")"}
        \/ Ch(line, k) \in {"0","1","2","3","4","5","6","7","8","9"}
        \/ \E j \in 1..Len(LowerChars) : LowerChars[j] = LowerCh(Ch(line, k))

\* re.sub(r'^[A-Za-ząćęłńóśźż\s]+:\s*', '', line)
StripLabel(line) ==
    LET e == Min({j \in 1..(Len(line) + 1) :
                     ~(IsSpace(line, j) \/
                       (j <= Len(line) /\
                        \E k \in 1..Len(LowerChars) :
                            LowerChars[k] = LowerCh(Ch(line, j))))})
    IN  IF e > 1 /\ StartsAt(line, e, ":")
        THEN SubSeq(line, SpaceEnd(line, e + 1), Len(line))
        ELSE line

\* the non-empty stripped lines of output.strip()
RECURSIVE StrippedLines(_)
StrippedLines(lines) ==
    IF Len(lines) = 0 THEN << >>
    ELSE IF str_strip(Head(lines)) = "" THEN StrippedLines(Tail(lines))
    ELSE << str_strip(Head(lines)) >> \o StrippedLines(Tail(lines))

\* the value the reversed scan returns for a line ("" when it is skipped)
ScanValue(line) ==
    IF ~HasValueChar(line) THEN ""
    ELSE LET cleaned == StripLabel(line)
         IN  IF cleaned = "" \/ IsNoneToken(UnwrapList(cleaned)) THEN ""
             ELSE UnwrapList(cleaned)

extract_answer_from_output(output) ==
    LET labels == {i \in 1..Len(output) : LabelAt(output, i)}
    IN  IF labels # {}
        THEN LET v == ValueStart(output, Min(labels) + Len("odpowiedz:"))
                 answer == UnwrapDict(UnwrapList(str_strip(
                               SubSeq(output, v, LineEnd(output, v) - 1))))
             IN  IF IsNoneToken(answer) THEN None ELSE answer
        ELSE LET lines == StrippedLines(str_split(str_strip(output)))
                 good == {k \in 1..Len(lines) : ScanValue(lines[k]) # ""}
             IN  IF Len(lines) = 0 THEN None
                 ELSE IF good # {} THEN ScanValue(lines[Max(good)])
                 ELSE lines[Len(lines)]

\* ------------------------------------------------------------------------
\* Numbers and the text helpers of check_answer
\* ------------------------------------------------------------------------

\* A Python float is modelled exactly, in thousandths: 0.5 is 500.  A value
\* that may be None is a sequence: << >> for None, << n >> for the float.
NoVal == << >>

Val(n) == << n >>

Abs(n) == IF n < 0 THEN -n ELSE n

DigitChars == <<"0","1","2","3","4","5","6","7","8","9">>

IsDigit(s, i) ==
    i >= 1 /\ i <= Len(s) /\ \E k \in 1..10 : DigitChars[k] = Ch(s, i)

DigitVal(c) == (CHOOSE k \in 1..10 : DigitChars[k] = c) - 1

\* end (exclusive) of the longest run of digits starting at i
DigitEnd(s, i) == Min({j \in i..(Len(s) + 1) : ~IsDigit(s, j)})

\* the value of a string of digits (the empty one counts 0)
RECURSIVE DigitsValue(_)
DigitsValue(d) ==
    IF Len(d) = 0 THEN 0
    ELSE 10 * DigitsValue(SubSeq(d, 1, Len(d) - 1)) + DigitVal(Ch(d, Len(d)))

\* thousandths of the fraction digits f (at most three digits are modelled)
FracValue(f) ==
    IF Len(f) = 0 THEN 0
    ELSE IF Len(f) = 1 THEN 100 * DigitsValue(f)
    ELSE IF Len(f) = 2 THEN 10 * DigitsValue(f)
    ELSE DigitsValue(SubSeq(f, 1, 3))

\* float(s) for the decimal literals [+-]digits[.digits] and [+-].digits
\* (surrounding blanks allowed); NoVal stands for ValueError
py_float(s) ==
    LET t    == str_strip(s)
        sg   == IF StartsWith(t, "-") \/ StartsWith(t, "+") THEN 2 ELSE 1
        ie   == DigitEnd(t, sg)
        dot  == StartsAt(t, ie, ".")
        fs   == IF dot THEN ie + 1 ELSE ie
        fe   == DigitEnd(t, fs)
        mag  == 1000 * DigitsValue(SubSeq(t, sg, ie - 1))
                + FracValue(SubSeq(t, fs, fe - 1))
    IN  IF fe = Len(t) + 1 /\ (ie > sg \/ fe > fs)
        THEN Val(IF StartsWith(t, "-") THEN -mag ELSE mag)
        ELSE NoVal

\* str(n) for an integer n >= 0
RECURSIVE IntStr(_)
IntStr(n) ==
    IF n < 10 THEN DigitChars[n + 1]
    ELSE IntStr(n \div 10) \o DigitChars[(n % 10) + 1]

\* str(v) of a float, as an f-string prints it: 500 is "0.5", 5000 is "5.0"
float_str(n) ==
    LET m  == Abs(n)
        f  == m % 1000
        fr == IF f = 0 THEN "0"
              ELSE IF f % 100 = 0 THEN IntStr(f \div 100)
              ELSE IF f % 10 = 0
                   THEN DigitChars[(f \div 100) + 1] \o IntStr((f \div 10) % 10)
              ELSE DigitChars[(f \div 100) + 1]
                   \o DigitChars[((f \div 10) % 10) + 1] \o IntStr(f % 10)
    IN  (IF n < 0 THEN "-" ELSE "") \o IntStr(m \div 1000) \o "." \o fr

\* the ASCII letters, [a-zA-Z]
IsLetter(s, i) == IsWord(s, i) /\ ~IsDigit(s, i) /\ Ch(s, i) # "_"

\* r'-?\d+\.?\d*' matched at position i: the end (exclusive), 0 for none
FloatNumEnd(s, i) ==
    LET d  == IF StartsAt(s, i, "-") THEN i + 1 ELSE i
        ie == DigitEnd(s, d)
    IN  IF ie = d THEN 0
        ELSE IF StartsAt(s, ie, ".") THEN DigitEnd(s, ie + 1) ELSE ie

\* re.findall(r'-?\d+\.?\d*', s): the matches from position i on
RECURSIVE FindFloatNums(_, _)
FindFloatNums(s, i) ==
    LET hits == {j \in i..Len(s) : FloatNumEnd(s, j) # 0}
    IN  IF hits = {} THEN << >>
        ELSE << SubSeq(s, Min(hits), FloatNumEnd(s, Min(hits)) - 1) >>
             \o FindFloatNums(s, FloatNumEnd(s, Min(hits)))

\* _try_float(s): a float read from the text, or None
_try_float(s0) ==
    LET s1   == str_replace(str_strip(s0), ",", ".")
        keep == {j \in 1..Len(s1) : ~IsLetter(s1, j)}
        s    == str_strip(IF keep = {} THEN "" ELSE SubSeq(s1, 1, Max(keep)))
        nums == FindFloatNums(s, 1)
    IN  IF py_float(s) # NoVal THEN py_float(s)
        ELSE IF Len(nums) > 0 THEN py_float(nums[Len(nums)])
        ELSE NoVal

\* r'\\d?frac\{([^}]*)\}\{([^}]*)\}' matched at position i: the end
\* (exclusive) of the match, 0 when there is none
FracEnd(s, i) ==
    LET a  == IF StartsAt(s, i, "\\dfrac{") THEN i + Len("\\dfrac{")
              ELSE i + Len("\\frac{")
        b  == RunUntil(s, a, "}")
        c  == RunUntil(s, b + 2, "}")
    IN  IF /\ (StartsAt(s, i, "\\frac{") \/ StartsAt(s, i, "\\dfrac{"))
           /\ StartsAt(s, b, "}{")
           /\ StartsAt(s, c, "}")
        THEN c + 1
        ELSE 0

\* r'(\1)/(\2)'
FracRepl(s, i) ==
    LET a  == IF StartsAt(s, i, "\\dfrac{") THEN i + Len("\\dfrac{")
              ELSE i + Len("\\frac{")
        b  == RunUntil(s, a, "}")
        c  == RunUntil(s, b + 2, "}")
    IN  "(" \o SubSeq(s, a, b - 1) \o ")/(" \o SubSeq(s, b + 2, c - 1) \o ")"

RECURSIVE SubFrac(_, _)
SubFrac(s, i) ==
    LET hits == {j \in i..Len(s) : FracEnd(s, j) # 0}
    IN  IF hits = {} THEN SubSeq(s, i, Len(s))
        ELSE SubSeq(s, i, Min(hits) - 1) \o FracRepl(s, Min(hits))
             \o SubFrac(s, FracEnd(s, Min(hits)))

\* end (exclusive) of the longest run of ASCII letters starting at i
LetterEnd(s, i) == Min({j \in i..(Len(s) + 1) : ~IsLetter(s, j)})

\* re.sub(r'\\[a-zA-Z]+', '', t), from position i on
RECURSIVE DropCommands(_, _)
DropCommands(s, i) ==
    LET hits == {j \in i..Len(s) : StartsAt(s, j, "\\") /\ IsLetter(s, j + 1)}
    IN  IF hits = {} THEN SubSeq(s, i, Len(s))
        ELSE SubSeq(s, i, Min(hits) - 1)
             \o DropCommands(s, LetterEnd(s, Min(hits) + 1))

\* re.sub(r'\s+', ' ', t), from position i on
RECURSIVE CollapseSpaces(_, _)
CollapseSpaces(s, i) ==
    LET hits == {j \in i..Len(s) : IsSpace(s, j)}
    IN  IF hits = {} THEN SubSeq(s, i, Len(s))
        ELSE SubSeq(s, i, Min(hits) - 1) \o " "
             \o CollapseSpaces(s, SpaceEnd(s, Min(hits)))

\* r'^\|?\w+\|?\s*=\s*' matched at the start: the end (exclusive), 0 for none
LeadLabelEnd(t) ==
    LET a  == IF StartsAt(t, 1, "|") THEN 2 ELSE 1
        we == WordEnd(t, a)
        b  == IF StartsAt(t, we, "|") THEN we + 1 ELSE we
        eq == SpaceEnd(t, b)
    IN  IF we > a /\ StartsAt(t, eq, "=") THEN SpaceEnd(t, eq + 1) ELSE 0

\* clean_latex_for_display(text), for texts whose only LaTeX is $, braces
\* and \frac / \dfrac: the substitutions of the other commands do not act
clean_latex_for_display(text) ==
    LET t1 == str_replace(text, "$", "")
        t2 == SubFrac(t1, 1)
        t3 == str_replace(str_replace(DropCommands(t2, 1), "{", ""), "}", "")
        t4 == str_strip(CollapseSpaces(t3, 1))
    IN  IF LeadLabelEnd(t4) # 0
        THEN str_strip(SubSeq(t4, LeadLabelEnd(t4), Len(t4)))
        ELSE t4

\* r'(.+?)\)?$' with the group starting at v, in a text without newlines:
\* the end (exclusive) of the group
LazyToEnd(s, v) ==
    IF Len(s) > v /\ Ch(s, Len(s)) = ")" THEN Len(s) ELSE Len(s) + 1

\* r'x\s*OP\s*(.+?)\)?$' tried at position i: the start of the group, 0 when
\* there is no match (\s* gives a character back when nothing else is left)
BoundStart(s, i, op) ==
    LET o  == SpaceEnd(s, i + 1)
        a  == o + Len(op)
        vs == {v \in a..SpaceEnd(s, a) : v <= Len(s)}
    IN  IF StartsAt(s, i, "x") /\ StartsAt(s, o, op) /\ vs # {}
        THEN Max(vs) ELSE 0

\* r'\s*&\s*(?:x\s*<\s*(.+?))\)?$' tried at position e: the start of the
\* second group, 0 when there is no match
AmpBoundStart(s, e) ==
    LET amp == SpaceEnd(s, e)
    IN  IF StartsAt(s, amp, "&") THEN BoundStart(s, SpaceEnd(s, amp + 1), "<")
        ELSE 0

\* the two groups of a match, stripped
Groups(s, a, b, v) ==
    << str_strip(SubSeq(s, a, b - 1)),
       str_strip(SubSeq(s, v, LazyToEnd(s, v) - 1)) >>

\* re.search(r'(?:x\s*>\s*(.+?))\s*&\s*(?:x\s*<\s*(.+?))\)?$', s):
\* << >> for no match, else the two groups stripped
OpenIntervalGT(s) ==
    LET \* start of group 1 for a match attempted at i (\s* may give back)
        G1(i) == LET o == SpaceEnd(s, i + 1)
                 IN  IF StartsAt(s, i, "x") /\ StartsAt(s, o, ">")
                     THEN (o + 1)..SpaceEnd(s, o + 1) ELSE {}
        \* the ends of group 1 that let the rest match, for a start v
        E1(v) == {e \in (v + 1)..Len(s) : AmpBoundStart(s, e) # 0}
        ok(i) == {v \in G1(i) : E1(v) # {}}
        hits  == {i \in 1..Len(s) : ok(i) # {}}
    IN  IF hits = {} THEN << >>
        ELSE LET v == Max(ok(Min(hits)))
                 e == Min(E1(v))
             IN  Groups(s, v, e, AmpBoundStart(s, e))

\* r'\s*<\s*x\s*&\s*(?:x\s*<\s*(.+?))\)?$' tried at position e
LtXAmpBoundStart(s, e) ==
    LET lt == SpaceEnd(s, e)
        x  == SpaceEnd(s, lt + 1)
    IN  IF StartsAt(s, lt, "<") /\ StartsAt(s, x, "x")
        THEN AmpBoundStart(s, x + 1) ELSE 0

\* re.search(r'(?:(.+?)\s*<\s*x)\s*&\s*(?:x\s*<\s*(.+?))\)?$', s)
OpenIntervalLT(s) ==
    LET E1(i) == {e \in (i + 1)..Len(s) : LtXAmpBoundStart(s, e) # 0}
        hits  == {i \in 1..Len(s) : E1(i) # {}}
    IN  IF hits = {} THEN << >>
        ELSE LET i == Min(hits)
                 e == Min(E1(i))
             IN  Groups(s, i, e, LtXAmpBoundStart(s, e))

\* r'.*?&.*?(?:x\s*<=\s*(.+?))\)?$' tried at position p: the start of the
\* last group, 0 when there is no match
ClosedRest(s, p) ==
    LET xs   == {j \in 1..Len(s) : BoundStart(s, j, "<=") # 0}
        amps == {a \in p..Len(s) : Ch(s, a) = "&" /\ \E j \in xs : j > a}
    IN  IF amps = {} THEN 0
        ELSE BoundStart(s, Min({j \in xs : j > Min(amps)}), "<=")

\* re.search(r'(?:(?:x\s*>=\s*|(.+?)\s*<=\s*x)).*?&.*?(?:x\s*<=\s*(.+?))\)?$',
\* s): << >> for no match, else group 1 (or '') and group 2, stripped
ClosedInterval(s) ==
    LET \* first alternative at i: the position after r'x\s*>=\s*'
        A(i)  == LET o == SpaceEnd(s, i + 1)
                 IN  IF StartsAt(s, i, "x") /\ StartsAt(s, o, ">=")
                     THEN {p \in (o + 2)..SpaceEnd(s, o + 2) : ClosedRest(s, p) # 0}
                     ELSE {}
        \* second alternative at i: the ends of group 1, and the position
        \* after r'\s*<=\s*x'
        AfterLeX(e) == LET le == SpaceEnd(s, e)
                           x  == SpaceEnd(s, le + 2)
                       IN  IF StartsAt(s, le, "<=") /\ StartsAt(s, x, "x")
                           THEN x + 1 ELSE 0
        B(i)  == {e \in (i + 1)..Len(s) :
                     AfterLeX(e) # 0 /\ ClosedRest(s, AfterLeX(e)) # 0}
        hits  == {i \in 1..Len(s) : A(i) # {} \/ B(i) # {}}
    IN  IF hits = {} THEN << >>
        ELSE LET i == Min(hits)
             IN  IF A(i) # {}
                 THEN LET v == ClosedRest(s, Max(A(i)))
                      IN  << "", str_strip(SubSeq(s, v, LazyToEnd(s, v) - 1)) >>
                 ELSE LET e == Min(B(i))
                      IN  Groups(s, i, e, ClosedRest(s, AfterLeX(e)))

\* _normalize_interval(s), for a text without newlines
NormalizedWith(s, gt, lt, mc) ==
    IF gt # << >> \/ lt # << >>
    THEN "(" \o str_replace((IF gt # << >> THEN gt ELSE lt)[1], "-oo", "-inf")
             \o ", "
             \o str_replace((IF gt # << >> THEN gt ELSE lt)[2], "oo", "inf")
             \o ")"
    ELSE IF mc # << >> THEN "<" \o mc[1] \o ", " \o mc[2] \o ">"
    ELSE s

NormalizedFrom(s) ==
    NormalizedWith(s, OpenIntervalGT(s), OpenIntervalLT(s), ClosedInterval(s))

_normalize_interval(s0) == NormalizedFrom(str_strip(s0))

\* r'-?\d+(?:/\d+)?(?:\.\d+)?|inf|-inf' matched at position i: the end
\* (exclusive), 0 for none
IntervalNumEnd(s, i) ==
    LET d  == IF StartsAt(s, i, "-") THEN i + 1 ELSE i
        ie == DigitEnd(s, d)
        qe == IF StartsAt(s, ie, "/") /\ DigitEnd(s, ie + 1) > ie + 1
              THEN DigitEnd(s, ie + 1) ELSE ie
        fe == IF StartsAt(s, qe, ".") /\ DigitEnd(s, qe + 1) > qe + 1
              THEN DigitEnd(s, qe + 1) ELSE qe
    IN  IF ie > d THEN fe
        ELSE IF StartsAt(s, i, "inf") THEN i + Len("inf")
        ELSE IF StartsAt(s, i, "-inf") THEN i + Len("-inf")
        ELSE 0

\* re.findall of that pattern, from position i on
RECURSIVE FindIntervalNums(_, _)
FindIntervalNums(s, i) ==
    LET hits == {j \in i..Len(s) : IntervalNumEnd(s, j) # 0}
    IN  IF hits = {} THEN << >>
        ELSE << SubSeq(s, Min(hits), IntervalNumEnd(s, Min(hits)) - 1) >>
             \o FindIntervalNums(s, IntervalNumEnd(s, Min(hits)))

\* c.upper() for one character
UpperCh(c) ==
    IF \E k \in 1..Len(LowerChars) : LowerChars[k] = c
    THEN UpperChars[CHOOSE k \in 1..Len(LowerChars) : LowerChars[k] = c]
    ELSE c

\* s.upper()
RECURSIVE str_upper(_)
str_upper(s) ==
    IF Len(s) = 0 THEN "" ELSE UpperCh(Ch(s, 1)) \o str_upper(SubSeq(s, 2, Len(s)))

\* a.lower() == b.lower()
SameLower(a, b) ==
    Len(a) = Len(b) /\ \A k \in 1..Len(a) : LowerCh(Ch(a, k)) = LowerCh(Ch(b, k))

\* a.lower() in b.lower()
InLower(a, b) ==
    \E i \in 1..(Len(b) + 1) :
        i + Len(a) - 1 <= Len(b) /\ SameLower(a, SubSeq(b, i, i + Len(a) - 1))

\* re.search(r'\b([a-dA-D])\b', got_clean): the letter in upper case, or None
LetterMention(got_clean) ==
    LET hits == {i \in 1..Len(got_clean) :
                    /\ Ch(got_clean, i) \in {"a","b","c","d","A","B","C","D"}
                    /\ ~IsWord(got_clean, i - 1)
                    /\ ~IsWord(got_clean, i + 1)}
    IN  IF hits = {} THEN None ELSE UpperCh(Ch(got_clean, Min(hits)))

\* re.sub(r'(\d)\s*([a-zA-Z])', r'\1*\2', s), from position i on
RECURSIVE SubImplicitMul(_, _)
SubImplicitMul(s, i) ==
    LET hits == {j \in i..Len(s) : IsDigit(s, j) /\ IsLetter(s, SpaceEnd(s, j + 1))}
    IN  IF hits = {} THEN SubSeq(s, i, Len(s))
        ELSE SubSeq(s, i, Min(hits)) \o "*"
             \o Ch(s, SpaceEnd(s, Min(hits) + 1))
             \o SubImplicitMul(s, SpaceEnd(s, Min(hits) + 1) + 1)

\* re.sub(r',(\d)', r'.\1', s), from position i on
RECURSIVE SubDecimalComma(_, _)
SubDecimalComma(s, i) ==
    LET hits == {j \in i..Len(s) : StartsAt(s, j, ",") /\ IsDigit(s, j + 1)}
    IN  IF hits = {} THEN SubSeq(s, i, Len(s))
        ELSE SubSeq(s, i, Min(hits) - 1) \o "."
             \o SubDecimalComma(s, Min(hits) + 1)

\* the expression _sympy_eval hands to sympify (for texts without \text,
\* \frac and \sqrt commands, which check_answer's callers have removed)
EvalText(expr_str) ==
    LET s1 == str_replace(str_strip(expr_str), "\\", "")
        s2 == str_replace(str_replace(s1, "{", "("), "}", ")")
        s3 == str_replace(s2, "^", "**")
        s4 == str_strip(SubImplicitMul(s3, 1))
    IN  str_replace(SubDecimalComma(s4, 1), " ", "")

\* What SymPy makes of the expressions of the modelled questions: the value
\* float(sympify(s)) prints, NoVal when sympify or float raises
SympyNumber(s) ==
    CASE s \in {"0", "1-1", "1 - 1"}                   -> Val(0)
      [] s = "0.001"                                   -> Val(1)
      [] s \in {"1/2", "(1)/(2)", "0.5", "2/4"}        -> Val(500)
      [] s \in {"0.75", "3/4"}                         -> Val(750)
      [] s = "0.751"                                   -> Val(751)
      [] s = "2"                                       -> Val(2000)
      [] s = "3"                                       -> Val(3000)
      [] s = "4"                                       -> Val(4000)
      [] s = "4.003"                                   -> Val(4003)
      [] s = "4.03"                                    -> Val(4030)
      [] s = "-5"                                      -> Val(-5000)
      [] s = "7"                                       -> Val(7000)
      [] s = "E"                                       -> Val(2718)
      [] OTHER                                         -> NoVal

\* _sympy_eval(expr_str); up: the subprocess ran to completion in time
_sympy_eval(expr_str, available, up) ==
    IF ~available THEN NoVal
    ELSE IF EvalText(expr_str) \in {"", "-", "+"} THEN NoVal
    ELSE IF up THEN SympyNumber(EvalText(expr_str))
    ELSE NoVal

\* _sympy_compare(expr1, expr2): simplify(e1 - e2) == 0 or e1.equals(e2),
\* for the expressions of the modelled questions
_sympy_compare(expr1, expr2, available, up) ==
    /\ available
    /\ up
    /\ SympyNumber(expr1) # NoVal
    /\ SympyNumber(expr1) = SympyNumber(expr2)

\* the tolerance 0.01 of check_answer, in thousandths
Tolerance == 10

\* Python: a or b, for floats that may be None (None and 0.0 are falsy)
FloatOr(a, b) == IF a = NoVal \/ a = Val(0) THEN b ELSE a

\* ------------------------------------------------------------------------
\* check_answer: the strategies.  c holds the arguments: c.expected, c.got
\* and c.options, the items of question['options'] in dict order as
\* << key, text >> pairs (empty for an open-ended question).  A strategy
\* yields << >> when it does not decide, else << match, explanation >>.
\* ------------------------------------------------------------------------

got_clean(c) == str_strip(c.got)

expected_letter(c) == str_upper(str_strip(c.expected))

\* question['options'].get(key, '')
OptionGet(options, key) ==
    IF \E k \in 1..Len(options) : options[k][1] = key
    THEN options[CHOOSE k \in 1..Len(options) : options[k][1] = key][2]
    ELSE ""

expected_opt_plain(c) ==
    clean_latex_for_display(OptionGet(c.options, expected_letter(c)))

opt_plain(c, k) == clean_latex_for_display(c.options[k][2])

key_matches(c, opt_key) == str_upper(opt_key) = expected_letter(c)

\* 1. the model explicitly says the letter
LetterVerdict(c) ==
    LET got_letter == LetterMention(got_clean(c))
    IN  IF got_letter # None /\ got_letter = expected_letter(c)
        THEN << TRUE, "Letter match: " \o got_letter >>
        ELSE << >>

\* s[0] if s else ''
FirstChar(s) == IF Len(s) > 0 THEN Ch(s, 1) ELSE ""

\* 2. normalize intervals and compare (the sign printed between the
\* interval and the option, U+2248, is written ~ here)
IntervalMatches(c, got_normalized, got_nums, plains, norms) ==
    {k \in 1..Len(c.options) :
        /\ norms[k] # plains[k]
        /\ got_nums # << >>
        /\ got_nums = FindIntervalNums(norms[k], 1)
        /\ FirstChar(got_normalized) = FirstChar(norms[k])}

IntervalDecision(c, got_normalized, hits) ==
    IF hits = {} THEN << >>
    ELSE IF c.options[Max(hits)][1] = "" THEN << >>
    ELSE IF key_matches(c, c.options[Max(hits)][1])
    THEN << TRUE, "Interval match: " \o got_normalized \o " ~ option "
                  \o c.options[Max(hits)][1] >>
    ELSE << FALSE, "Interval matched option " \o c.options[Max(hits)][1]
                   \o ", expected " \o expected_letter(c) >>

\* the options the loop of step 2 accepts (none when normalization left the
\* candidate as it was)
IntervalHits(c, got, got_normalized, plains) ==
    IF got_normalized = got THEN {}
    ELSE IntervalMatches(c, got_normalized,
             FindIntervalNums(got_normalized, 1), plains,
             [k \in 1..Len(plains) |-> _normalize_interval(plains[k])])

IntervalCompared(c, got, got_normalized, plains) ==
    IntervalDecision(c, got_normalized,
                     IntervalHits(c, got, got_normalized, plains))

OptPlains(c) == [k \in 1..Len(c.options) |-> opt_plain(c, k)]

IntervalVerdict(c) ==
    IntervalCompared(c, got_clean(c), _normalize_interval(got_clean(c)),
                     OptPlains(c))

\* 2b. direct symbolic match against each option; ups[k]: the subprocess
\* of the k-th comparison ran to completion
SymbolicEachHits(c, available, ups) ==
    {k \in 1..Len(c.options) :
        _sympy_compare(got_clean(c), opt_plain(c, k), available, ups[k])}

\* a variant that returns only when the option found is the expected one
SymbolicEachDecision_MatchOnly(c, hits) ==
    IF hits = {} \/ ~key_matches(c, c.options[Min(hits)][1]) THEN << >>
    ELSE << TRUE, "Symbolic option match: " \o got_clean(c) \o " = option "
                  \o c.options[Min(hits)][1] >>

SymbolicEachDecision(c, hits) ==
    IF hits = {} THEN << >>
    ELSE IF key_matches(c, c.options[Min(hits)][1])
    THEN << TRUE, "Symbolic option match: " \o got_clean(c) \o " = option "
                  \o c.options[Min(hits)][1] >>
    ELSE << FALSE, "Symbolic matched option " \o c.options[Min(hits)][1]
                   \o ", expected " \o expected_letter(c) >>

SymbolicEachVerdict(c, available, ups) ==
    SymbolicEachDecision(c, SymbolicEachHits(c, available, ups))

\* got_value = _sympy_eval(got_clean) or _try_float(got_clean)
ValueOf(text, available, up) ==
    FloatOr(_sympy_eval(text, available, up), _try_float(text))

GotValue(c, available, up) == ValueOf(got_clean(c), available, up)

\* opt_value = _sympy_eval(opt_plain) or _try_float(opt_plain)
OptValue(c, k, available, up) == ValueOf(opt_plain(c, k), available, up)

\* the values of all options, in dict order
OptValues(c, available, ups) ==
    [k \in 1..Len(c.options) |-> OptValue(c, k, available, ups[k])]

\* the loop of step 3: the first option among those nearest to got_value
\* (diff < best_diff is strict), 0 when no option has a value
BestMatch_FirstValued(got_value, opt_values) ==
    IF \A k \in 1..Len(opt_values) : opt_values[k] = NoVal THEN 0
    ELSE Min({k \in 1..Len(opt_values) : opt_values[k] # NoVal})

BestMatch(got_value, opt_values) ==
    LET valued  == {k \in 1..Len(opt_values) : opt_values[k] # NoVal}
        diff(k) == Abs(got_value[1] - opt_values[k][1])
        nearest == {k \in valued : \A j \in valued : diff(k) <= diff(j)}
    IN  IF valued = {} THEN 0 ELSE Min(nearest)

\* 3. evaluate the numeric answer and compare with each option; ups[0] is
\* for the candidate, ups[k] for the k-th option
NumericOptionDecision(c, got_value, best_match, best_diff, best_plain) ==
    IF best_match = "" \/ ~(best_diff < Tolerance) THEN << >>
    ELSE IF key_matches(c, best_match)
    THEN << TRUE, "Value match: " \o float_str(got_value[1]) \o " = option "
                  \o best_match \o " (" \o best_plain \o ")" >>
    ELSE << FALSE, "Matched option " \o best_match \o ", expected "
                   \o expected_letter(c) >>

NumericOptionBest(c, got_value, opt_values, b) ==
    IF b = 0 THEN << >>
    ELSE NumericOptionDecision(c, got_value, c.options[b][1],
             Abs(got_value[1] - opt_values[b][1]),
             clean_latex_for_display(OptionGet(c.options, c.options[b][1])))

NumericOptionCompared(c, got_value, opt_values) ==
    IF got_value = NoVal THEN << >>
    ELSE NumericOptionBest(c, got_value, opt_values,
                           BestMatch(got_value, opt_values))

NumericOptionVerdict(c, available, ups) ==
    NumericOptionCompared(c, GotValue(c, available, ups[0]),
                          OptValues(c, available, ups))

\* 4. symbolic comparison with the expected option
SymbolicExpectedVerdict(c, available, up) ==
    IF _sympy_compare(got_clean(c), expected_opt_plain(c), available, up)
    THEN << TRUE, "Symbolic match with option " \o expected_letter(c) >>
    ELSE << >>

\* the last return of the multiple-choice branch
FailOptionVerdict(c) ==
    << FALSE, "Expected " \o expected_letter(c) \o " (" \o expected_opt_plain(c)
              \o "), got: " \o Prefix(got_clean(c), 60) >>

expected_plain(c) == clean_latex_for_display(c.expected)

\* open-ended: string match
SubstringVerdict(c) ==
    IF InLower(expected_plain(c), got_clean(c))
    THEN << TRUE, "Substring match" >>
    ELSE << >>

\* open-ended: numeric match, by difference and then by ratio
\* (abs(g / e - 1.0) < 0.01 is 100 * |g - e| < |e|; U+2248 is written ~)
NumericVerdict(c, got_value, exp_value) ==
    IF got_value = NoVal \/ exp_value = NoVal THEN << >>
    ELSE IF Abs(got_value[1] - exp_value[1]) < Tolerance
    THEN << TRUE, "Numeric match: " \o float_str(got_value[1]) >>
    ELSE IF exp_value[1] # 0
            /\ 100 * Abs(got_value[1] - exp_value[1]) < Abs(exp_value[1])
    THEN << TRUE, "Ratio match: " \o float_str(got_value[1]) \o " ~ "
                  \o float_str(exp_value[1]) >>
    ELSE << >>

\* open-ended: symbolic comparison
SymbolicVerdict(c, available, up) ==
    IF _sympy_compare(got_clean(c), expected_plain(c), available, up)
    THEN << TRUE, "Symbolic match" >>
    ELSE << >>

\* re.split(r'[,;]', s), from position i on
RECURSIVE SplitParts(_, _)
SplitParts(s, i) ==
    LET hits == {j \in i..Len(s) : Ch(s, j) \in {",", ";"}}
    IN  IF hits = {} THEN << SubSeq(s, i, Len(s)) >>
        ELSE << SubSeq(s, i, Min(hits) - 1) >> \o SplitParts(s, Min(hits) + 1)

\* m = re.match(r'[\w_|]+\s*=\s*(.+)', part); m.group(1).strip() if m else part
PartValue(part) ==
    LET we == Min({j \in 1..(Len(part) + 1) :
                      ~(IsWord(part, j) \/ StartsAt(part, j, "|"))})
        eq == SpaceEnd(part, we)
        v  == ValueStart(part, eq + 1)
    IN  IF we > 1 /\ StartsAt(part, eq, "=") /\ v # 0
        THEN str_strip(SubSeq(part, v, LineEnd(part, v) - 1))
        ELSE part

\* the condition of line 448 for one part: "match", "no", or "raise" when
\* abs(got_value - None) is evaluated (the second _sympy_eval(val) call
\* returning None after the first returned a float).  u.cmp, u.e1 and u.e2
\* tell whether the three subprocesses ran to completion.
PartCompared(got, got_value, val, same, e1, e2) ==
    IF val = "" THEN "no"
    ELSE IF SameLower(val, got) THEN "match"
    ELSE IF same THEN "match"
    ELSE IF got_value = NoVal \/ e1 = NoVal THEN "no"
    ELSE IF e2 = NoVal THEN "raise"
    ELSE IF Abs(got_value[1] - e2[1]) < Tolerance THEN "match"
    ELSE "no"

PartOutcomeOf(got, got_value, val, available, u) ==
    PartCompared(got, got_value, val,
                 _sympy_compare(got, val, available, u.cmp),
                 _sympy_eval(val, available, u.e1),
                 _sympy_eval(val, available, u.e2))

PartOutcome(c, got_value, part, available, u) ==
    PartOutcomeOf(got_clean(c), got_value, PartValue(str_strip(part)),
                  available, u)

\* the parts of expected_plain, and the first one that decides (0: none)
ExpParts(c) == SplitParts(expected_plain(c), 1)

PartOutcomes(c, got_value, parts, available, us) ==
    [k \in 1..Len(parts) |-> PartOutcome(c, got_value, parts[k], available, us[k])]

DecidingPart(outs) ==
    IF \A k \in 1..Len(outs) : outs[k] = "no" THEN 0
    ELSE Min({k \in 1..Len(outs) : outs[k] # "no"})

\* open-ended: the loop over the parts raises TypeError
PartialRaises(outs) ==
    DecidingPart(outs) # 0 /\ outs[DecidingPart(outs)] = "raise"

\* open-ended: matching against the parts of expected
PartialVerdict(c, parts, outs) ==
    IF DecidingPart(outs) = 0 \/ PartialRaises(outs) THEN << >>
    ELSE << TRUE, "Partial match: " \o got_clean(c) \o " matches '"
                  \o str_strip(parts[DecidingPart(outs)]) \o "'" >>

\* the last return of check_answer
FailVerdict(c) ==
    << FALSE, "Expected: " \o expected_plain(c) \o ", got: "
              \o Prefix(got_clean(c), 80) >>

\* ------------------------------------------------------------------------
\* Inputs: what the agents and the SymPy subprocess can hand to the harness
\* ------------------------------------------------------------------------

\* code blocks extract_first_code_block can return (stripped, non-empty)
Programs ==
    { "x = solve(e)[0]\nprint(x)",
      "y = 1/0",
      "from sympy import Simplify\nprint(Simplify(x))",
      "print(Pi)",
      "print(a^2)",
      "print(a^b^c)",
      "print(GreaterEqual(x, 1))" }

\* stderr texts of a subprocess that ended with a non-zero status
Stderrs ==
    { "",
      "Traceback (most recent call last):\n  File \"<string>\", line 5, in <module>\nZeroDivisionError: division by zero",
      "NameError: name 'x' is not defined",
      "NameError: name 'Pi' is not defined",
      "IndexError: list index out of range" }

\* stdout texts of the subprocess, before .strip()
Stdouts ==
    { "", "\n", "ODPOWIEDZ: [5]\n", "ODPOWIEDZ: None\n", "Wynik: 3/4\n",
      "x = 3\nODPOWIEDZ:\n", "None\n" }

\* what one call of subprocess.run can do: return a completed process, or
\* raise TimeoutExpired, or raise another exception (OSError, ValueError, ..)
ProcOutcomes ==
    [kind : {"returned"}, rc : {0}, stdout : Stdouts, stderr : {""}]
    \cup [kind : {"returned"}, rc : {1}, stdout : {""}, stderr : Stderrs]
    \cup [kind : {"returned"}, rc : {1}, stdout : {"7\n"},
          stderr : {"ZeroDivisionError: division by zero"}]
    \cup [kind : {"timeout", "exception"}, rc : {-1}, stdout : {""}, stderr : {""}]

\* ------------------------------------------------------------------------
\* State
\* ------------------------------------------------------------------------

VARIABLES
    pc,             \* where test_question is
    SYMPY_AVAILABLE,\* the module-level flag set by ensure_sympy()
    result,         \* the result dict of test_question
    code,           \* extract_first_code_block(executor), or None
    current_code,   \* _run_sympy_with_retry: the text of the next attempt
    attempt,        \* _run_sympy_with_retry: the loop index
    sympy_output,   \* what _run_sympy_with_retry returned
    executed,       \* the sanitized text of the latest _run_sympy call
    runs,           \* history: what each _run_sympy call returned or raised
    n_fix,          \* history: number of _fix_code_from_error calls
    extracted,      \* history: the outcomes whose stdout went to the extractor
    outcome,        \* history: the return statements of the controller taken
    chk,            \* check_answer: its arguments, position and verdict
    drv,            \* main: the question loop and the interrupt flag
    rag             \* rag_service: the TF-IDF index and its cache files

vars == << pc, SYMPY_AVAILABLE, result, code, current_code, attempt,
           sympy_output, executed, runs, n_fix, extracted, outcome, chk, drv,
           rag >>

\* what test_question and the controller never assign
env_vars == << SYMPY_AVAILABLE, chk, drv, rag >>

\* no call of check_answer in progress; main not running
ChkIdle ==
    [stage |-> "idle", expected |-> "", got |-> "", options |-> << >>,
     got_value |-> << >>, opt_values |-> << >>, got_eval |-> << >>,
     exp_eval |-> << >>, identified |-> << >>, verdict |-> << >>,
     consulted |-> << >>]

DrvIdle == [at |-> "idle"]

\* the retrieval service not running
RagIdle == [up |-> FALSE]

MAX_RETRIES == 3

Init ==
    /\ pc = "analytical"
    /\ SYMPY_AVAILABLE \in BOOLEAN
    /\ result = [correct |-> FALSE, answer_got |-> None, has_code |-> FALSE,
                 code_valid |-> FALSE, analytical_ok |-> FALSE, errors |-> << >>]
    /\ code = None
    /\ current_code = None
    /\ attempt = 0
    /\ sympy_output = None
    /\ executed = None
    /\ runs = << >>
    /\ n_fix = 0
    /\ extracted = << >>
    /\ outcome = {}
    /\ chk = ChkIdle
    /\ drv = DrvIdle
    /\ rag = RagIdle

\* ------------------------------------------------------------------------
\* test_question, up to the call of the controller
\* ------------------------------------------------------------------------

ctl_vars == << current_code, attempt, sympy_output, executed, runs, n_fix,
               extracted, outcome >>

\* call_bielik(ANALYTICAL_PROMPT, ..) returned nothing
AnalyticalFailed ==
    /\ pc = "analytical"
    /\ result' = [result EXCEPT !.errors = Append(@, "Analytical agent failed")]
    /\ pc' = "done"
    /\ UNCHANGED << env_vars, code, ctl_vars >>

\* the analytical agent answered; has_plan and no_latex depend on its text
AnalyticalOk ==
    /\ pc = "analytical"
    /\ \E ok \in BOOLEAN : result' = [result EXCEPT !.analytical_ok = ok]
    /\ pc' = "executor"
    /\ UNCHANGED << env_vars, code, ctl_vars >>

\* call_bielik(EXECUTOR_PROMPT, ..) returned nothing
ExecutorFailed ==
    /\ pc = "executor"
    /\ result' = [result EXCEPT !.errors = Append(@, "Executor agent failed")]
    /\ pc' = "done"
    /\ UNCHANGED << env_vars, code, ctl_vars >>

\* has_print and no_caret and has_import
CodeValid(c) ==
    /\ Contains(c, "print(")
    /\ ~\E i \in 1..Len(c) :
           IsWord(c, i) /\ StartsAt(c, i + 1, "^") /\ IsWord(c, i + 2)
    /\ Contains(c, "import") \/ Contains(c, "from ")

\* the executor agent answered; its text holds a code block or none; the
\* controller is entered when there is code and SymPy is available
ExecutorOk ==
    /\ pc = "executor"
    /\ \E c \in Programs \cup {None} :
        /\ code' = c
        /\ result' = [result EXCEPT !.has_code = (c # None),
                                    !.code_valid = (c # None /\ CodeValid(c))]
        /\ IF c # None /\ SYMPY_AVAILABLE
           THEN /\ pc' = "sympy"
                /\ current_code' = c
                /\ attempt' = 0
           ELSE /\ pc' = "check"
                /\ UNCHANGED << current_code, attempt >>
    /\ UNCHANGED << env_vars, sympy_output, executed, runs, n_fix,
                    extracted, outcome >>

\* ------------------------------------------------------------------------
\* _run_sympy and _run_sympy_with_retry: one action per loop iteration and
\* branch
\* ------------------------------------------------------------------------

\* _run_sympy(code) when subprocess.run returns proc:
\* (proc.stdout.strip(), proc.stderr.strip(), proc.returncode)
_run_sympy(proc) ==
    [proc EXCEPT !.stdout = str_strip(@), !.stderr = str_strip(@)]

\* for attempt in range(MAX_RETRIES + 1)
InRange(a) == a \in 0..MAX_RETRIES

\* a repair attempted on the last iteration too
CanRetry_OnLast(a) == a <= MAX_RETRIES

\* if attempt < MAX_RETRIES
CanRetry(a) == a < MAX_RETRIES

\* f"SymPy error: {stderr[:100]}"
ErrorEntry(stderr) == "SymPy error: " \o Prefix(stderr, 100)

\* the current text executed as it is, without _sanitize_code
Execute_Raw(proc) ==
    /\ pc = "sympy"
    /\ InRange(attempt)
    /\ executed' = current_code
    /\ runs' = Append(runs, _run_sympy(proc))

\* the part every iteration shares: the call of _run_sympy(current_code)
\* with the loop index in range; proc is what subprocess.run does
Execute(proc) ==
    /\ pc = "sympy"
    /\ InRange(attempt)
    /\ executed' = _sanitize_code(current_code)
    /\ runs' = Append(runs, _run_sympy(proc))

\* a return statement of the controller
Return(label, value) ==
    /\ pc' = "check"
    /\ sympy_output' = value
    /\ outcome' = outcome \cup {label}

\* the exit status ignored when there is output
ProcsWithOutput_AnyStatus ==
    {p \in ProcOutcomes : p.kind = "returned" /\ str_strip(p.stdout) # ""}

\* the completed processes with rc == 0 and stdout, with rc == 0 and no
\* stdout, and with rc != 0
ProcsWithOutput ==
    {p \in ProcOutcomes : p.kind = "returned" /\ p.rc = 0 /\ str_strip(p.stdout) # ""}

ProcsNoOutput ==
    {p \in ProcOutcomes : p.kind = "returned" /\ p.rc = 0 /\ str_strip(p.stdout) = ""}

ProcsFailed == {p \in ProcOutcomes : p.kind = "returned" /\ p.rc # 0}

\* rc == 0 and stdout: extract the answer, return stdout
RunSuccess ==
    \E proc \in ProcsWithOutput :
        /\ Execute(proc)
        /\ result' = [result EXCEPT !.answer_got =
                          extract_answer_from_output(_run_sympy(proc).stdout)]
        /\ extracted' = Append(extracted, _run_sympy(proc))
        /\ Return("success", _run_sympy(proc).stdout)
        /\ UNCHANGED << env_vars, code, current_code, attempt, n_fix >>

\* a silent success handled like a failure: repaired and run again
RunNoOutput_Repaired ==
    \E proc \in ProcsNoOutput :
        /\ pc = "sympy"
        /\ CanRetry(attempt)
        /\ Execute(proc)
        /\ n_fix' = n_fix + 1
        /\ current_code' =
               _fix_code_from_error(current_code, _run_sympy(proc).stderr)
        /\ attempt' = attempt + 1
        /\ UNCHANGED << pc, sympy_output, outcome, env_vars, code,
                        result, extracted >>

\* rc == 0 and not stdout: the code ran but produced no output
RunNoOutput ==
    \E proc \in ProcsNoOutput :
        /\ Execute(proc)
        /\ result' = [result EXCEPT
                          !.errors = Append(@, "SymPy: no output produced")]
        /\ Return("no_output", None)
        /\ UNCHANGED << env_vars, code, current_code, attempt, n_fix,
                        extracted >>

\* the repaired failure recorded in the error list as well
RunRetry_Records ==
    \E proc \in ProcsFailed :
        LET fixed_code == _fix_code_from_error(current_code, _run_sympy(proc).stderr)
        IN  /\ pc = "sympy"
            /\ CanRetry(attempt)
            /\ fixed_code # current_code
            /\ Execute(proc)
            /\ n_fix' = n_fix + 1
            /\ current_code' = fixed_code
            /\ attempt' = attempt + 1
            /\ result' = [result EXCEPT !.errors =
                   Append(@, "SymPy error: " \o Prefix(_run_sympy(proc).stderr, 100))]
            /\ UNCHANGED << pc, sympy_output, outcome, env_vars, code,
                            extracted >>

\* rc != 0, attempt < MAX_RETRIES and the repairer changed the code: continue.
\* When the loop index then leaves range(MAX_RETRIES + 1) the function falls
\* through to its last return.
RunRetry ==
    \E proc \in ProcsFailed :
        LET fixed_code == _fix_code_from_error(current_code, _run_sympy(proc).stderr)
        IN  /\ pc = "sympy"
            /\ CanRetry(attempt)
            /\ fixed_code # current_code
            /\ Execute(proc)
            /\ n_fix' = n_fix + 1
            /\ current_code' = fixed_code
            /\ attempt' = attempt + 1
            /\ IF InRange(attempt + 1)
               THEN UNCHANGED << pc, sympy_output, outcome >>
               ELSE Return("fallthrough", None)
            /\ UNCHANGED << env_vars, code, result, extracted >>

\* the unchanged text executed again instead of the early return
RunUnfixable_Retries ==
    \E proc \in ProcsFailed :
        LET fixed_code == _fix_code_from_error(current_code, _run_sympy(proc).stderr)
        IN  /\ pc = "sympy"
            /\ CanRetry(attempt)
            /\ fixed_code = current_code
            /\ Execute(proc)
            /\ n_fix' = n_fix + 1
            /\ attempt' = attempt + 1
            /\ UNCHANGED << pc, sympy_output, outcome, env_vars, code,
                            current_code, result, extracted >>

\* rc != 0, attempt < MAX_RETRIES and the repairer returned the same text
RunUnfixable ==
    \E proc \in ProcsFailed :
        LET fixed_code == _fix_code_from_error(current_code, _run_sympy(proc).stderr)
        IN  /\ pc = "sympy"
            /\ CanRetry(attempt)
            /\ fixed_code = current_code
            /\ Execute(proc)
            /\ n_fix' = n_fix + 1
            /\ result' = [result EXCEPT
                   !.errors = Append(@, ErrorEntry(_run_sympy(proc).stderr))]
            /\ Return("unfixable", None)
            /\ UNCHANGED << env_vars, code, current_code, attempt,
                            extracted >>

\* the last failure returned without an error entry
RunExhausted_Silent ==
    \E proc \in ProcsFailed :
        /\ ~CanRetry(attempt)
        /\ Execute(proc)
        /\ Return("exhausted", None)
        /\ UNCHANGED << env_vars, code, current_code, attempt, n_fix,
                        extracted, result >>

\* rc != 0 on the last attempt: the repairer is not called
RunExhausted ==
    \E proc \in ProcsFailed :
        /\ ~CanRetry(attempt)
        /\ Execute(proc)
        /\ result' = [result EXCEPT
               !.errors = Append(@, ErrorEntry(_run_sympy(proc).stderr))]
        /\ Return("exhausted", None)
        /\ UNCHANGED << env_vars, code, current_code, attempt, n_fix,
                        extracted >>

\* the timed-out text run again, the loop index not advanced
RunTimeout_Retried ==
    \E proc \in {p \in ProcOutcomes : p.kind = "timeout"} :
        /\ Execute(proc)
        /\ UNCHANGED << pc, sympy_output, outcome, env_vars, code,
                        current_code, attempt, n_fix, extracted, result >>

\* except subprocess.TimeoutExpired
RunTimeout ==
    \E proc \in {p \in ProcOutcomes : p.kind = "timeout"} :
        /\ Execute(proc)
        /\ result' = [result EXCEPT !.errors = Append(@, "SymPy timeout")]
        /\ Return("timeout", None)
        /\ UNCHANGED << env_vars, code, current_code, attempt, n_fix,
                        extracted >>

\* the exception leaves the controller instead of being caught
RunException_Propagates ==
    \E proc \in {p \in ProcOutcomes : p.kind = "exception"} :
        /\ Execute(proc)
        /\ pc' = "raised"
        /\ UNCHANGED << env_vars, code, current_code, attempt, n_fix,
                        extracted, result, sympy_output, outcome >>

\* except Exception as e
RunException ==
    \E proc \in {p \in ProcOutcomes : p.kind = "exception"} :
        /\ Execute(proc)
        /\ result' = [result EXCEPT !.errors = Append(@, "SymPy exception: e")]
        /\ Return("exception", None)
        /\ UNCHANGED << env_vars, code, current_code, attempt, n_fix,
                        extracted >>

\* ------------------------------------------------------------------------
\* test_question, after the controller
\* ------------------------------------------------------------------------

\* check_answer called whether or not an answer was extracted
CheckAnswer_Unguarded ==
    /\ pc = "check"
    /\ \E match \in BOOLEAN : result' = [result EXCEPT !.correct = match]
    /\ pc' = "done"
    /\ UNCHANGED << env_vars, code, ctl_vars >>

\* if result['answer_got']: the verdict of check_answer becomes 'correct'
CheckAnswer ==
    /\ pc = "check"
    /\ result.answer_got # None /\ result.answer_got # ""
    /\ \E match \in BOOLEAN : result' = [result EXCEPT !.correct = match]
    /\ pc' = "done"
    /\ UNCHANGED << env_vars, code, ctl_vars >>

\* no answer extracted: the result is returned as it is
NoAnswer ==
    /\ pc = "check"
    /\ ~(result.answer_got # None /\ result.answer_got # "")
    /\ pc' = "done"
    /\ UNCHANGED << env_vars, result, code, ctl_vars >>

Next ==
    \/ AnalyticalFailed
    \/ AnalyticalOk
    \/ ExecutorFailed
    \/ ExecutorOk
    \/ RunSuccess
    \/ RunNoOutput
    \/ RunRetry
    \/ RunUnfixable
    \/ RunExhausted
    \/ RunTimeout
    \/ RunException
    \/ CheckAnswer
    \/ NoAnswer

Spec == Init /\ [][Next]_vars

\* ------------------------------------------------------------------------
\* check_answer as a cascade: one action per strategy
\* ------------------------------------------------------------------------

\* question['options'] of three multiple-choice questions, in dict order
OptionsNumbers == << <<"A", "$\\frac{1}{2}$">>, <<"B", "0.75">>, <<"C", "2">> >>

OptionsInequalities == << <<"A", "x<2">>, <<"B", "x>2">>, <<"C", "2<x<5">> >>

OptionsIntervals == << <<"A", "x > 0 & x < 1">>, <<"B", "x > 2 & x < 5">> >>

\* a question with five options
OptionsFive ==
    << <<"A", "0">>, <<"B", "2">>, <<"C", "3">>, <<"D", "4">>, <<"E", "7">> >>

\* the calls check_answer(expected, got, question) modelled
CheckCalls ==
    [expected : {"A", "B"}, options : {OptionsNumbers},
     got : {"", "0.75", "0.751", "0,75", "B", "3/4", "7", "0.5"}]
    \cup [expected : {"C"}, options : {OptionsInequalities},
          got : {"(x > 2) & (x < 5)", "x > 2 & x < 5"}]
    \cup [expected : {"A", "B"}, options : {OptionsIntervals},
          got : {"(x > 2) & (x < 5)", "x > 2 & x < 5", "B"}]
    \cup [expected : {"E"}, options : {OptionsFive}, got : {"E", "e", "d"}]
    \cup [expected : {"1/2", "0.001", "0", "4", "b = 4, c = -5", "$x = 3$"},
          options : {<< >>},
          got : {"0.5", "1-1", "1/2", "2/4", "3", "4", "4.003", "4.03", "7"}]
    \cup [expected : {"$"}, options : {<< >>}, got : {"7"}]

\* the state on entry of check_answer
ChkCall(call) ==
    [stage |-> "start", expected |-> call.expected, got |-> call.got,
     options |-> call.options, got_value |-> NoVal, opt_values |-> << >>,
     got_eval |-> NoVal, exp_eval |-> NoVal, identified |-> << >>,
     verdict |-> << >>, consulted |-> << >>]

\* check_answer is entered with any of the calls; nothing else runs
CheckInit ==
    /\ pc = "check"
    /\ SYMPY_AVAILABLE \in BOOLEAN
    /\ result = [correct |-> FALSE, answer_got |-> None, has_code |-> FALSE,
                 code_valid |-> FALSE, analytical_ok |-> FALSE, errors |-> << >>]
    /\ code = None
    /\ current_code = None
    /\ attempt = 0
    /\ sympy_output = None
    /\ executed = None
    /\ runs = << >>
    /\ n_fix = 0
    /\ extracted = << >>
    /\ outcome = {}
    /\ chk \in {ChkCall(call) : call \in CheckCalls}
    /\ drv = DrvIdle
    /\ rag = RagIdle

chk_frame == << pc, SYMPY_AVAILABLE, result, code, ctl_vars, drv, rag >>

\* the strategy `name` was evaluated and gave v: return it, or go on to next
\* a variant that keeps the verdict and goes on to the next strategy
Decided_GoesOn(c, name, v, next) ==
    [c EXCEPT !.stage = next, !.verdict = IF v # << >> THEN v ELSE @,
              !.consulted = Append(@, name)]

Decided(c, name, v, next) ==
    IF v # << >>
    THEN [c EXCEPT !.stage = "returned", !.verdict = v,
                   !.consulted = Append(@, name)]
    ELSE [c EXCEPT !.stage = next, !.consulted = Append(@, name)]

Decide(name, v, next) ==
    /\ chk' = Decided(chk, name, v, next)
    /\ UNCHANGED chk_frame

\* if not got: return; else the branch on question.get('options')
CkStart ==
    /\ chk.stage = "start"
    /\ chk' = IF chk.got = ""
              THEN [chk EXCEPT !.stage = "returned",
                               !.verdict = << FALSE, "No answer produced" >>]
              ELSE IF chk.options # << >> THEN [chk EXCEPT !.stage = "letter"]
              ELSE [chk EXCEPT !.stage = "substring"]
    /\ UNCHANGED chk_frame

CkLetter ==
    /\ chk.stage = "letter"
    /\ Decide("letter", LetterVerdict(chk), "interval")

\* best_interval_match is the last option the loop accepted
IntervalStep(got_normalized, hits) ==
    /\ chk' = Decided([chk EXCEPT !.identified =
                           IF hits = {} THEN << >>
                           ELSE << chk.options[Max(hits)][1] >>],
                      "interval",
                      IntervalDecision(chk, got_normalized, hits),
                      "symbolic_each")
    /\ UNCHANGED chk_frame

IntervalNormalized(got_normalized) ==
    IntervalStep(got_normalized,
                 IntervalHits(chk, got_clean(chk), got_normalized, OptPlains(chk)))

CkInterval ==
    /\ chk.stage = "interval"
    /\ IntervalNormalized(_normalize_interval(got_clean(chk)))

\* opt_key is the first option the comparison accepted
SymbolicEachStep(hits) ==
    /\ chk' = Decided([chk EXCEPT !.identified =
                           IF hits = {} THEN << >>
                           ELSE << chk.options[Min(hits)][1] >>],
                      "symbolic_each",
                      SymbolicEachDecision(chk, hits),
                      "numeric_option")
    /\ UNCHANGED chk_frame

CkSymbolicEach ==
    /\ chk.stage = "symbolic_each"
    /\ \E ups \in [1..Len(chk.options) -> BOOLEAN] :
           SymbolicEachStep(SymbolicEachHits(chk, SYMPY_AVAILABLE, ups))

\* got_value and every opt_value are computed, then compared
OptionsValued(got_value, opt_values) ==
    /\ chk' = Decided([chk EXCEPT !.got_value = got_value,
                                  !.opt_values = opt_values],
                      "numeric",
                      NumericOptionCompared(chk, got_value, opt_values),
                      "symbolic_expected")
    /\ UNCHANGED chk_frame

CkNumericOption ==
    /\ chk.stage = "numeric_option"
    /\ \E ups \in [0..Len(chk.options) -> BOOLEAN] :
           OptionsValued(GotValue(chk, SYMPY_AVAILABLE, ups[0]),
                         OptValues(chk, SYMPY_AVAILABLE, ups))

CkSymbolicExpected ==
    /\ chk.stage = "symbolic_expected"
    /\ \E up \in BOOLEAN :
           Decide("symbolic_expected",
                  SymbolicExpectedVerdict(chk, SYMPY_AVAILABLE, up), "fail_option")

CkFailOption ==
    /\ chk.stage = "fail_option"
    /\ Decide("fail", FailOptionVerdict(chk), "returned")

CkSubstring ==
    /\ chk.stage = "substring"
    /\ Decide("substring", SubstringVerdict(chk), "numeric")

\* got_value and exp_value are computed, then compared
NumericCompared(got_eval, exp_eval, got_value, v) ==
    /\ chk' = Decided([chk EXCEPT !.got_eval = got_eval, !.exp_eval = exp_eval,
                                  !.got_value = got_value],
                      "numeric", v, "symbolic")
    /\ UNCHANGED chk_frame

NumericValues(got_eval, exp_eval, got_value, exp_value) ==
    NumericCompared(got_eval, exp_eval, got_value,
                    NumericVerdict(chk, got_value, exp_value))

\* got_eval and exp_eval are what the two _sympy_eval calls returned
NumericEvaluated(got_eval, exp_eval) ==
    NumericValues(got_eval, exp_eval,
                  FloatOr(got_eval, _try_float(got_clean(chk))),
                  FloatOr(exp_eval, _try_float(expected_plain(chk))))

CkNumeric ==
    /\ chk.stage = "numeric"
    /\ \E ug \in BOOLEAN, ue \in BOOLEAN :
           NumericEvaluated(_sympy_eval(got_clean(chk), SYMPY_AVAILABLE, ug),
                            _sympy_eval(expected_plain(chk), SYMPY_AVAILABLE, ue))

CkSymbolic ==
    /\ chk.stage = "symbolic"
    /\ \E up \in BOOLEAN :
           Decide("symbolic", SymbolicVerdict(chk, SYMPY_AVAILABLE, up), "partial")

\* the loop over the parts of expected; it may raise TypeError
PartsCompared(parts, outs) ==
    IF PartialRaises(outs)
    THEN /\ chk' = [chk EXCEPT !.stage = "raised",
                               !.consulted = Append(@, "partial")]
         /\ UNCHANGED chk_frame
    ELSE Decide("partial", PartialVerdict(chk, parts, outs), "fail")

PartsLoop(parts) ==
    \E us \in [1..Len(parts) -> [cmp : BOOLEAN, e1 : BOOLEAN, e2 : BOOLEAN]] :
        PartsCompared(parts,
            PartOutcomes(chk, chk.got_value, parts, SYMPY_AVAILABLE, us))

CkPartial ==
    /\ chk.stage = "partial"
    /\ PartsLoop(ExpParts(chk))

CkFail ==
    /\ chk.stage = "fail"
    /\ Decide("fail", FailVerdict(chk), "returned")

CheckNext ==
    \/ CkStart
    \/ CkLetter
    \/ CkInterval
    \/ CkSymbolicEach
    \/ CkNumericOption
    \/ CkSymbolicExpected
    \/ CkFailOption
    \/ CkSubstring
    \/ CkNumeric
    \/ CkSymbolic
    \/ CkPartial
    \/ CkFail

CheckSpec == CheckInit /\ [][CheckNext]_vars

\* ------------------------------------------------------------------------
\* Vocabulary of the properties
\* ------------------------------------------------------------------------

\* number of executions so far, and the latest one
n_exec == Len(runs)

last == runs[Len(runs)]

\* an execution that did not end in rc == 0 with output
IsFailedRun(r) == ~(r.kind = "returned" /\ r.rc = 0 /\ r.stdout # "")

n_failed == Cardinality({i \in 1..Len(runs) : IsFailedRun(runs[i])})

\* the controller has returned
Returned == outcome # {}

\* the stderr conditions of the repair rules 1, 2, 3, 5, 6 and 7
NoTrigger(error_msg) ==
    /\ ~HasNameError(error_msg)
    /\ ~Contains(error_msg, "IndexError: list index out of range")
    /\ ~Contains(error_msg, "'And' object")
    /\ ~Contains(error_msg, "'Or' object")
    /\ ~Contains(error_msg, "'bool' object has no attribute 'subs'")
    /\ ~Contains(error_msg, "tuple indices must be integers")
    /\ ~Contains(error_msg, "list indices must be integers")
    /\ ~Contains(error_msg, "name 'Pi' is not defined")

\* ------------------------------------------------------------------------
\* Properties
\* ------------------------------------------------------------------------

\* C1: whatever the executor does, a run makes at most MAX_RETRIES + 1 = 4
\* executions and at most MAX_RETRIES = 3 repair calls, and a failure of the
\* execution at attempt index MAX_RETRIES (the fourth) ends the run as
\* exhausted, the repairer not being called for it.
C1_RetryBound ==
    /\ n_exec <= 4
    /\ n_fix <= 3
    /\ (n_exec = 4 /\ last.kind = "returned" /\ last.rc # 0)
           => (outcome = {"exhausted"} /\ n_fix = 3 /\ pc # "sympy")

\* a run of four failed executions, each of the first three repaired
C1_Witness ==
    /\ outcome = {"exhausted"}
    /\ n_exec = 4
    /\ n_fix = 3
    /\ \A i \in 1..4 : runs[i].rc # 0

FiveOutcomes == {"success", "no_output", "unfixable", "exhausted", "timeout"}

\* C2 (as claimed): a finished run of the controller ended in exactly one of
\* the five outcomes success, no-output, unfixable, exhausted, timeout.
C2_FiveOutcomes ==
    (pc \in {"check", "done"} /\ n_exec > 0)
        => (Cardinality(outcome) = 1 /\ outcome \subseteq FiveOutcomes)

\* C2 (amended): every run of the controller terminates, and it ends in
\* exactly one of six outcomes: the five above or the exception outcome taken
\* when the execution step raises something other than a timeout.
\* Termination: while the controller runs its loop index is in range and
\* counts the executions made, and every iteration either returns or moves
\* on to the next index, so a run makes at most MAX_RETRIES + 1 iterations.
C2_SixOutcomes ==
    /\ [](IF pc \in {"check", "done"} /\ n_exec > 0
          THEN /\ Cardinality(outcome) = 1
               /\ outcome \subseteq (FiveOutcomes \cup {"exception"})
          ELSE outcome = {})
    /\ [](pc = "sympy" => (attempt \in 0..3 /\ n_exec = attempt))
    /\ [][pc = "sympy" =>
             \/ pc' = "check" /\ Cardinality(outcome') = 1
             \/ pc' = "sympy" /\ attempt' = attempt + 1]_vars
    /\ [][Returned => outcome' = outcome]_vars

\* a run that ended in the sixth outcome, on its second execution
C2_Witness == pc = "done" /\ outcome = {"exception"} /\ n_exec = 2

\* C3: a repair call that returns the text it was given ends the run at once
\* as unfixable, whatever budget remains, and nothing is executed afterwards.
C3_UnchangedStops ==
    /\ [][(/\ n_fix' = n_fix + 1
           /\ _fix_code_from_error(current_code, runs'[Len(runs')].stderr)
                  = current_code)
          => (pc' = "check" /\ outcome' = {"unfixable"} /\ sympy_output' = None)]_vars
    /\ [][("unfixable" \in outcome) => (runs' = runs /\ n_fix' = n_fix)]_vars

\* an unfixable stop after the first execution, three attempts unused
C3_Witness ==
    /\ outcome = {"unfixable"}
    /\ n_exec = 1
    /\ attempt = 0
    /\ _fix_code_from_error(current_code, last.stderr) = current_code

\* C4 (as claimed): after a failed execution whose stderr matches none of the
\* repair rules' trigger conditions the controller has stopped (the repairer
\* having returned the text unchanged), whatever the program text is.
C4_UnknownErrorStops ==
    (n_exec >= 1 /\ last.kind = "returned" /\ last.rc # 0 /\ NoTrigger(last.stderr))
        => (pc # "sympy" /\ outcome \in {{"unfixable"}, {"exhausted"}})

\* the entries of the error list
ErrorSet == {result.errors[i] : i \in 1..Len(result.errors)}

\* C5: an execution that exits with status 0 and empty stdout, on any attempt
\* index, ends the run with the no-output outcome: no repair call, nothing
\* extracted, no answer, no later execution, and the error list gains the
\* entry "SymPy: no output produced", which no other outcome leaves.
C5_NoOutput ==
    /\ [][(/\ runs' # runs
           /\ last'.kind = "returned" /\ last'.rc = 0 /\ last'.stdout = "")
          => /\ pc' = "check"
             /\ outcome' = {"no_output"}
             /\ n_fix' = n_fix
             /\ sympy_output' = None
             /\ extracted' = << >>
             /\ result'.answer_got = None
             /\ result'.errors = Append(result.errors, "SymPy: no output produced")]_vars
    /\ [][("no_output" \in outcome)
          => (runs' = runs /\ n_fix' = n_fix /\ extracted' = extracted)]_vars
    /\ []((outcome = {"no_output"}) <=> ("SymPy: no output produced" \in ErrorSet))

\* a silent success on the third execution, after two repaired failures
C5_Witness ==
    /\ pc = "done"
    /\ outcome = {"no_output"}
    /\ n_exec = 3
    /\ last.rc = 0 /\ last.stdout = ""

\* C6: a timed-out execution is one of the at most MAX_RETRIES + 1 = 4
\* executions of the run and is never run again: it ends the run in the
\* timeout outcome without a repair call, and leaves the entry
\* "SymPy timeout", which a non-zero exit status never leaves.
C6_Timeout ==
    /\ [](n_exec <= 4)
    /\ [][(runs' # runs /\ last'.kind = "timeout")
          => /\ pc' = "check"
             /\ outcome' = {"timeout"}
             /\ n_fix' = n_fix
             /\ attempt' = attempt
             /\ sympy_output' = None
             /\ result'.errors = Append(result.errors, "SymPy timeout")]_vars
    /\ [][("timeout" \in outcome) => (runs' = runs /\ n_fix' = n_fix)]_vars
    /\ []((outcome = {"timeout"}) <=> ("SymPy timeout" \in ErrorSet))

\* a timeout on the fourth execution, after three repaired failures
C6_Witness ==
    /\ outcome = {"timeout"}
    /\ n_exec = 4
    /\ last.kind = "timeout"
    /\ \A i \in 1..3 : runs[i].rc = 1

\* C7 (as claimed): when the controller has returned, the error list holds
\* one entry for each failed execution of the run.
C7_ErrorPerFailure == Returned => Len(result.errors) = n_failed

\* C7 (amended): when the controller has returned, the error list holds no
\* entry after a success and exactly one after any other outcome: the
\* message of the execution that ended the run (for a non-zero exit,
\* "SymPy error: " and the first 100 characters of its stderr).  Failures
\* that were repaired and retried leave no entry.
C7_OneErrorAtEnd ==
    Returned =>
        /\ Len(result.errors) = IF outcome = {"success"} THEN 0 ELSE 1
        /\ outcome = {"no_output"} => result.errors[1] = "SymPy: no output produced"
        /\ outcome = {"timeout"} => result.errors[1] = "SymPy timeout"
        /\ outcome \in {{"unfixable"}, {"exhausted"}} =>
               /\ StartsWith(result.errors[1], "SymPy error: ")
               /\ StartsWith("SymPy error: " \o last.stderr, result.errors[1])
               /\ Len(result.errors[1])
                      = Len("SymPy error: ") + IF Len(last.stderr) < 100
                                               THEN Len(last.stderr) ELSE 100

\* four failed executions, one entry, cut from a stderr of over 100 characters
C7_Witness ==
    /\ outcome = {"exhausted"}
    /\ n_failed = 4
    /\ Len(result.errors) = 1
    /\ Len(last.stderr) > 100

\* what an unfixable stop leaves for a final stderr: the return value, the
\* answer and the error list (no earlier failure of the run is recorded)
UnfixableLeaves(stderr) == << None, None, << ErrorEntry(stderr) >> >>

\* C8 (as claimed): what a run that failed on attempt index MAX_RETRIES leaves
\* (return value, answer, error list) differs from what an unfixable stop
\* leaves for the same final stderr.
C8_ExhaustedDistinct ==
    ("exhausted" \in outcome)
        => << sympy_output, result.answer_got, result.errors >>
               # UnfixableLeaves(last.stderr)

FailureOutcomes == {"no_output", "unfixable", "exhausted", "timeout"}

\* C9: after each of the outcomes no-output, unfixable, exhausted and timeout
\* test_question goes on to return its result record, and that record has
\* correct = False and a non-empty errors list.
C9_FailureReturnsRecord ==
    /\ []((outcome \cap FailureOutcomes # {})
          => /\ pc \in {"check", "done"}
             /\ result.correct = FALSE
             /\ Len(result.errors) >= 1)
    /\ [][(pc = "check" /\ outcome \cap FailureOutcomes # {})
          => (pc' = "done" /\ result' = result)]_vars

\* the record returned after an exhausted run
C9_Witness ==
    /\ pc = "done"
    /\ outcome = {"exhausted"}
    /\ result.correct = FALSE
    /\ Len(result.errors) = 1

\* C10: only the stdout of an execution with exit status 0 and non-empty
\* stdout, the one that ends the run in Success, is passed to
\* extract_answer_from_output; after any other outcome nothing was
\* extracted and answer_got is still None.
C10_ExtractOnlyFromSuccess ==
    /\ \A i \in 1..Len(extracted) :
           /\ extracted[i].kind = "returned"
           /\ extracted[i].rc = 0
           /\ extracted[i].stdout # ""
    /\ (outcome # {"success"}) => (extracted = << >> /\ result.answer_got = None)
    /\ (outcome = {"success"}) =>
           /\ extracted = << last >>
           /\ pc = "check" =>
                  result.answer_got = extract_answer_from_output(last.stdout)

\* a success whose answer is 5, after a failed execution that printed 7
C10_Witness ==
    /\ outcome = {"success"}
    /\ n_exec = 2
    /\ runs[1].rc = 1 /\ runs[1].stdout = "7"
    /\ result.answer_got = "5"

\* C11 (as claimed): the text handed to the subprocess is a fixed point of
\* _sanitize_code, i.e. sanitizing twice gives what sanitizing once gives.
C11_SanitizeIdempotent ==
    (executed # None) => (_sanitize_code(executed) = executed)

\* the text assigns from solve(...)[0]
HasSolveIdx(c) == c # None /\ \E j \in 1..Len(c) : SolveIdxEnd(c, j) # 0

\* the first execution of such a text failed with the IndexError
IndexErrorFirst ==
    /\ HasSolveIdx(code)
    /\ n_exec >= 1
    /\ runs[1].kind = "returned" /\ runs[1].rc # 0
    /\ Contains(runs[1].stderr, "IndexError: list index out of range")

\* f" (retry {attempt})" if attempt > 0 else "": the number the success line
\* prints when verbose
retry_tag == IF attempt > 0 THEN attempt ELSE None

NumericStepDone ==
    /\ chk.options # << >>
    /\ chk.consulted # << >>
    /\ chk.consulted[Len(chk.consulted)] = "numeric"
    /\ chk.got_value # NoVal

Distance(k) == Abs(chk.got_value[1] - chk.opt_values[k][1])

ValuedOptions == {k \in 1..Len(chk.opt_values) : chk.opt_values[k] # NoVal}

ClosestOptions == {k \in ValuedOptions : \A j \in ValuedOptions : Distance(k) <= Distance(j)}

PickedVerdict(k) ==
    IF Distance(k) < Tolerance
    THEN /\ chk.stage = "returned"
         /\ chk.verdict[1] = (chk.options[k][1] = str_upper(str_strip(chk.expected)))
         /\ ~chk.verdict[1] =>
                chk.verdict[2] = "Matched option " \o chk.options[k][1]
                                 \o ", expected " \o str_upper(str_strip(chk.expected))
         /\ chk.verdict[1] =>
                Contains(chk.verdict[2], "option " \o chk.options[k][1])
    ELSE chk.stage = "symbolic_expected" /\ chk.verdict = << >>

C14_IntervalScenario ==
    (/\ chk.options = OptionsInequalities
     /\ chk.expected = "C"
     /\ chk.got = "(x > 2) & (x < 5)"
     /\ chk.stage = "returned")
    => /\ chk.verdict[1] = TRUE
       /\ chk.consulted[Len(chk.consulted)] = "interval"
       /\ StartsAt(chk.verdict[2], 1, "Interval match: ")
       /\ _normalize_interval(chk.got) # chk.got

\* ------------------------------------------------------------------------
\* C15.  On an open-ended question where the substring step did not match,
\* when the candidate and the reference both evaluate to numbers whose
\* absolute difference is below 0.01, or whose ratio is within 0.01 of 1
\* for a non-zero reference, the numeric step returns a match.
\* ------------------------------------------------------------------------
NumericStepEvaluated ==
    /\ chk.options = << >>
    /\ \E k \in 1..Len(chk.consulted) : chk.consulted[k] = "numeric"
    /\ chk.got_eval # NoVal
    /\ chk.exp_eval # NoVal

EvaluatedClose ==
    \/ Abs(chk.got_eval[1] - chk.exp_eval[1]) < Tolerance
    \/ /\ chk.exp_eval[1] # 0
       /\ 100 * Abs(chk.got_eval[1] - chk.exp_eval[1]) < Abs(chk.exp_eval[1])

C15_NumericMatch ==
    (NumericStepEvaluated /\ EvaluatedClose) =>
        /\ chk.stage = "returned"
        /\ chk.verdict[1] = TRUE
        /\ chk.consulted[Len(chk.consulted)] = "numeric"

\* ------------------------------------------------------------------------
\* C16.  When the output of the successful execution contains a labeled
\* result line (ODPOWIEDZ:, any case), the answer is the value of that line
\* with a surrounding [..] or {k: ..} removed, and when that value is a
\* none-equivalent token (none, null, [], {}, empty) there is no answer:
\* the other lines are not scanned.
\* ------------------------------------------------------------------------
LabeledLines(output) ==
    {i \in 1..Len(output) : StartsAtIC(output, i, "odpowiedz:")}

LabeledValue(output) ==
    str_strip(SubSeq(output, Min(LabeledLines(output)) + Len("odpowiedz:"),
                     LineEnd(output, Min(LabeledLines(output))) - 1))

C16_LabeledLineOnly ==
    (/\ outcome = {"success"}
     /\ pc = "check"
     /\ LabeledLines(last.stdout) # {})
    => result.answer_got =
           IF IsNoneToken(UnwrapDict(UnwrapList(LabeledValue(last.stdout))))
           THEN None
           ELSE UnwrapDict(UnwrapList(LabeledValue(last.stdout)))

\* ------------------------------------------------------------------------
\* main: the loop over years and questions, and signal_handler.  drv holds
\* main's locals and the module's interrupted flag:
\*   at            where main is: "year_loop", "question_loop", one of the
\*                 steps of test_question ("analytical", "executor",
\*                 "sympy", "check"), "year_summary", "overall", "done",
\*                 "force_quit" (sys.exit(1) from signal_handler) or
\*                 "crashed" (an exception left main)
\*   years, year   len(years) and the index of the current year
\*   questions, q  len(questions) of the year and the index of the next one
\*   year_results, all_results   the lengths of the two lists
\*   reported      how many results the year summaries have printed
\*   started       how many calls of test_question were made
\*   interrupted   the flag; signals counts the SIGINTs delivered, and
\*                 interrupted_at is where main was at the first one
\*   loaded        how many questions the years loaded so far hold
\*   results       all_results, each result reduced to how its evaluation
\*                 ended (see ResultRecord)
\* ------------------------------------------------------------------------

MaxYears == 2

MaxQuestions == 2

MaxInterrupts == 2

\* main after the server check, before the loop over years
DrvStart(n) ==
    [at |-> "year_loop", years |-> n, year |-> 1, questions |-> 0, q |-> 1,
     year_results |-> 0, all_results |-> 0, reported |-> 0, started |-> 0,
     interrupted |-> FALSE, signals |-> 0, interrupted_at |-> "none",
     loaded |-> 0, results |-> << >>]

\* the ways test_question ends, and what the result dict then holds:
\* correct, the errors list, and whether the code was executed
ResultKinds ==
    {"analytical_failed", "executor_failed", "not_run", "no_answer", "wrong",
     "correct"}

ResultRecord(kind) ==
    CASE kind = "analytical_failed" ->
             [correct |-> FALSE, errors |-> << "Analytical agent failed" >>,
              ran |-> FALSE, checked |-> FALSE]
      [] kind = "executor_failed" ->
             [correct |-> FALSE, errors |-> << "Executor agent failed" >>,
              ran |-> FALSE, checked |-> FALSE]
      [] kind = "not_run" ->
             [correct |-> FALSE, errors |-> << >>, ran |-> FALSE, checked |-> FALSE]
      [] kind = "no_answer" ->
             [correct |-> FALSE, errors |-> << >>, ran |-> TRUE, checked |-> FALSE]
      [] kind = "wrong" ->
             [correct |-> FALSE, errors |-> << >>, ran |-> TRUE, checked |-> TRUE]
      [] kind = "correct" ->
             [correct |-> TRUE, errors |-> << >>, ran |-> TRUE, checked |-> TRUE]

MainInit ==
    /\ pc = "main"
    /\ SYMPY_AVAILABLE \in BOOLEAN
    /\ result = [correct |-> FALSE, answer_got |-> None, has_code |-> FALSE,
                 code_valid |-> FALSE, analytical_ok |-> FALSE, errors |-> << >>]
    /\ code = None
    /\ current_code = None
    /\ attempt = 0
    /\ sympy_output = None
    /\ executed = None
    /\ runs = << >>
    /\ n_fix = 0
    /\ extracted = << >>
    /\ outcome = {}
    /\ chk = ChkIdle
    /\ drv \in {DrvStart(n) : n \in 1..MaxYears}
    /\ rag = RagIdle

drv_frame == << pc, SYMPY_AVAILABLE, result, code, ctl_vars, chk, rag >>

InEvaluation == drv.at \in {"analytical", "executor", "sympy", "check"}

\* for year in years: if interrupted: break; questions = load_questions(..)
YearLoop ==
    /\ drv.at = "year_loop"
    /\ IF drv.interrupted \/ drv.year > drv.years
       THEN drv' = [drv EXCEPT !.at = "overall"]
       ELSE \E n \in 0..MaxQuestions :
                drv' = [drv EXCEPT !.at = "question_loop", !.questions = n,
                                   !.q = 1, !.year_results = 0,
                                   !.loaded = @ + n]
    /\ UNCHANGED drv_frame

\* a variant of the loop head without the test of the flag
QuestionLoop_IgnoresFlag ==
    /\ drv.at = "question_loop"
    /\ IF drv.q > drv.questions
       THEN drv' = [drv EXCEPT !.at = "year_summary"]
       ELSE drv' = [drv EXCEPT !.at = "analytical", !.started = @ + 1]
    /\ UNCHANGED drv_frame

\* for q in questions: if interrupted: break; result = test_question(..)
QuestionLoop ==
    /\ drv.at = "question_loop"
    /\ IF drv.interrupted \/ drv.q > drv.questions
       THEN drv' = [drv EXCEPT !.at = "year_summary"]
       ELSE drv' = [drv EXCEPT !.at = "analytical", !.started = @ + 1]
    /\ UNCHANGED drv_frame

\* test_question returns: the result is appended to both lists
ResultAppended(d, kind) ==
    [d EXCEPT !.at = "question_loop", !.q = @ + 1, !.year_results = @ + 1,
              !.all_results = @ + 1, !.results = Append(@, kind)]

\* a variant in which a failed agent call ends the run
Analytical_StopsRun ==
    /\ drv.at = "analytical"
    /\ \E answered \in BOOLEAN :
           drv' = IF answered THEN [drv EXCEPT !.at = "executor"]
                  ELSE [ResultAppended(drv, "analytical_failed")
                            EXCEPT !.at = "year_summary", !.interrupted = TRUE]
    /\ UNCHANGED drv_frame

\* Phase 1: call_bielik; None ends the evaluation
Analytical ==
    /\ drv.at = "analytical"
    /\ \E answered \in BOOLEAN :
           drv' = IF answered THEN [drv EXCEPT !.at = "executor"]
                  ELSE ResultAppended(drv, "analytical_failed")
    /\ UNCHANGED drv_frame

\* Phase 2: call_bielik; None ends the evaluation; the program runs when
\* there is a code block and SymPy is available
Executor ==
    /\ drv.at = "executor"
    /\ \E answered \in BOOLEAN, has_code \in BOOLEAN :
           drv' = IF ~answered THEN ResultAppended(drv, "executor_failed")
                  ELSE IF has_code /\ SYMPY_AVAILABLE
                  THEN [drv EXCEPT !.at = "sympy"]
                  ELSE ResultAppended(drv, "not_run")
    /\ UNCHANGED drv_frame

\* _run_sympy_with_retry; check_answer is called when an answer was found
SympyRun ==
    /\ drv.at = "sympy"
    /\ \E has_answer \in BOOLEAN :
           drv' = IF has_answer THEN [drv EXCEPT !.at = "check"]
                  ELSE ResultAppended(drv, "no_answer")
    /\ UNCHANGED drv_frame

\* check_answer returns
AnswerChecked ==
    /\ drv.at = "check"
    /\ \E match \in BOOLEAN :
           drv' = ResultAppended(drv, IF match THEN "correct" ELSE "wrong")
    /\ UNCHANGED drv_frame

\* the year summary prints the counts of year_results
YearSummary ==
    /\ drv.at = "year_summary"
    /\ drv' = [drv EXCEPT !.at = "year_loop", !.year = @ + 1,
                          !.reported = @ + drv.year_results]
    /\ UNCHANGED drv_frame

\* the overall summary divides by len(all_results)
Overall ==
    /\ drv.at = "overall"
    /\ drv' = IF (drv.years > 1 \/ drv.all_results > 5) /\ drv.all_results = 0
              THEN [drv EXCEPT !.at = "crashed"]
              ELSE [drv EXCEPT !.at = "done"]
    /\ UNCHANGED drv_frame

\* signal_handler: the first SIGINT sets the flag; a later one calls
\* sys.exit(1).  SystemExit leaves main from wherever it is, except inside
\* the bare except clauses of _sympy_eval and _sympy_compare (called by
\* check_answer), which swallow it.
Interrupt ==
    /\ drv.at \notin {"idle", "done", "force_quit", "crashed"}
    /\ drv.signals < MaxInterrupts
    /\ IF ~drv.interrupted
       THEN drv' = [drv EXCEPT !.interrupted = TRUE, !.signals = @ + 1,
                               !.interrupted_at = drv.at]
       ELSE \E swallowed \in {FALSE, drv.at = "check"} :
                drv' = IF swallowed THEN [drv EXCEPT !.signals = @ + 1]
                       ELSE [drv EXCEPT !.signals = @ + 1, !.at = "force_quit"]
    /\ UNCHANGED drv_frame

MainNext ==
    \/ YearLoop
    \/ QuestionLoop
    \/ Analytical
    \/ Executor
    \/ SympyRun
    \/ AnswerChecked
    \/ YearSummary
    \/ Overall
    \/ Interrupt

MainSpec == MainInit /\ [][MainNext]_vars

\* ------------------------------------------------------------------------
\* C17 (as claimed).  No interrupt, first or later, stops the driver in
\* the middle of an evaluation: main never leaves through sys.exit from
\* signal_handler while a call of test_question is in progress.
\* ------------------------------------------------------------------------
C17_EveryInterruptDeferred ==
    drv.at = "force_quit" => drv.started = drv.all_results

\* C17 (amended).  The first interrupt only sets the flag: main stays where
\* it is and keeps its results.  While the flag is set no call of
\* test_question is started, and when main is done every result computed
\* has been printed by a year summary.  Only an interrupt that arrives
\* when the flag is already set makes main exit through sys.exit(1), from
\* wherever it is.
C17_FirstInterruptDeferred ==
    /\ [][/\ (~drv.interrupted /\ drv'.interrupted) =>
                 drv' = [drv EXCEPT !.interrupted = TRUE,
                                    !.signals = drv'.signals,
                                    !.interrupted_at = drv'.interrupted_at]
          /\ drv.interrupted => drv'.started = drv.started
          /\ (drv.at # "force_quit" /\ drv'.at = "force_quit") =>
                 (drv.interrupted /\ drv'.signals = drv.signals + 1)
          /\ drv'.all_results >= drv.all_results]_vars
    /\ [](drv.at = "done" => drv.reported = drv.all_results)

\* C17 witness: the first interrupt arrived while the program of the first
\* of two questions was running; that evaluation was completed and
\* reported, the second was not started
C17_Witness ==
    /\ drv.at = "done"
    /\ drv.signals = 1
    /\ drv.interrupted_at = "sympy"
    /\ drv.questions = 2
    /\ drv.started = 1
    /\ drv.all_results = 1
    /\ drv.reported = 1

\* ------------------------------------------------------------------------
\* C18.  check_answer consults its strategies in the specified order and
\* stops at the first that produces a verdict: the strategies consulted so
\* far are always an initial part of the order of the branch, there is no
\* verdict before the call returns, the verdict returned carries the
\* explanation of the last strategy consulted, a strategy that would decide
\* is never passed over, and after the return nothing more is consulted.
\* ------------------------------------------------------------------------
OptionsOrder ==
    << "letter", "interval", "symbolic_each", "numeric", "symbolic_expected",
       "fail" >>

OpenOrder == << "substring", "numeric", "symbolic", "partial", "fail" >>

CascadeOrder == IF chk.options # << >> THEN OptionsOrder ELSE OpenOrder

LastConsulted == chk.consulted[Len(chk.consulted)]

\* the explanations each strategy can return
ExplanationStarts ==
    IF chk.options # << >>
    THEN [letter            |-> {"Letter match: "},
          interval          |-> {"Interval match: ", "Interval matched option "},
          symbolic_each     |-> {"Symbolic option match: ", "Symbolic matched option "},
          numeric           |-> {"Value match: ", "Matched option "},
          symbolic_expected |-> {"Symbolic match with option "},
          fail              |-> {"Expected "}]
    ELSE [substring |-> {"Substring match"},
          numeric   |-> {"Numeric match: ", "Ratio match: "},
          symbolic  |-> {"Symbolic match"},
          partial   |-> {"Partial match: "},
          fail      |-> {"Expected: "}]

InOrder ==
    /\ Len(chk.consulted) <= Len(CascadeOrder)
    /\ chk.consulted = SubSeq(CascadeOrder, 1, Len(chk.consulted))

VerdictOfLast ==
    IF chk.stage = "returned"
    THEN /\ Len(chk.verdict) = 2
         /\ chk.consulted = << >> => chk.verdict = << FALSE, "No answer produced" >>
         /\ chk.consulted # << >> =>
                \E t \in ExplanationStarts[LastConsulted] :
                    StartsAt(chk.verdict[2], 1, t)
    ELSE chk.verdict = << >>

\* the strategies that do not depend on a subprocess: once consulted, one
\* that decides has ended the call with its own verdict
NotPassedOver ==
    /\ (chk.options # << >> /\ chk.consulted # << >> /\ LetterVerdict(chk) # << >>) =>
           /\ chk.stage = "returned"
           /\ chk.consulted = << "letter" >>
           /\ chk.verdict = LetterVerdict(chk)
    /\ (chk.options # << >> /\ Len(chk.consulted) >= 2 /\ IntervalVerdict(chk) # << >>) =>
           /\ chk.stage = "returned"
           /\ chk.consulted = << "letter", "interval" >>
           /\ chk.verdict = IntervalVerdict(chk)
    /\ (chk.options = << >> /\ chk.consulted # << >> /\ SubstringVerdict(chk) # << >>) =>
           /\ chk.stage = "returned"
           /\ chk.consulted = << "substring" >>
           /\ chk.verdict = SubstringVerdict(chk)

C18_ShortCircuitCascade ==
    /\ [](InOrder /\ VerdictOfLast /\ NotPassedOver)
    /\ [][/\ chk.stage \in {"returned", "raised"} => chk' = chk
          /\ chk'.consulted # chk.consulted =>
                 /\ chk'.consulted = Append(chk.consulted,
                                            CascadeOrder[Len(chk.consulted) + 1])
                 /\ chk.verdict = << >>]_vars

\* C18 witness: the interval step, second in the order, has returned a
\* match; the four later strategies were not consulted
C18_Witness ==
    /\ chk.stage = "returned"
    /\ chk.consulted = << "letter", "interval" >>
    /\ chk.verdict[1] = TRUE
    /\ chk.got = "x > 2 & x < 5"
    /\ chk.expected = "B"

\* ------------------------------------------------------------------------
\* C19 (as claimed).  The input code is normalized once, before attempt 0:
\* attempt 0 executes the normalized input, a repair is computed from the
\* text that was executed, and a later attempt executes exactly the text
\* the repairer returned.
\* ------------------------------------------------------------------------
Executes == Len(runs') = Len(runs) + 1

Repairs == n_fix' = n_fix + 1 /\ current_code' # current_code

C19_NormalizedOnce ==
    [][Executes =>
           /\ attempt = 0 => executed' = _sanitize_code(code)
           /\ attempt > 0 => executed' = current_code
           /\ Repairs => current_code' =
                  _fix_code_from_error(executed', runs'[Len(runs')].stderr)]_vars

\* C19 (amended).  The controller keeps the current text as the agent or
\* the repairer produced it.  Every attempt, the first and each later one,
\* executes the normalization of the current text; a repair is computed
\* from the current text, not from the normalized text that was executed,
\* and its output becomes the current text unchanged.
C19_NormalizedEachAttempt ==
    /\ [][Executes =>
              /\ executed' = _sanitize_code(current_code)
              /\ attempt = 0 => current_code = code
              /\ Repairs => current_code' =
                     _fix_code_from_error(current_code, runs'[Len(runs')].stderr)
              /\ ~Repairs => current_code' = current_code]_vars
    /\ [][(pc = "sympy" /\ current_code' # current_code) =>
              (Executes /\ Repairs)]_vars

\* C19 witness: print(a^2) failed with an undefined name; the repaired text
\* still holds the caret, and the second attempt executed its normalization
C19_Witness ==
    /\ code = "print(a^2)"
    /\ Len(runs) = 2
    /\ n_fix = 1
    /\ current_code # code
    /\ Contains(current_code, "a^2")
    /\ executed = _sanitize_code(current_code)
    /\ executed # current_code
    /\ Contains(executed, "a**2")

\* ------------------------------------------------------------------------
\* C20.  One call of the repairer applies the transform of only the first
\* of the rules 1, 2, 3, 5, 6, 7 whose trigger matches the stderr, and of
\* no later rule that matches too.  (Rule 4 and the final print rule have
\* no trigger in the stderr; they are taken as applied in every call.)
\* ------------------------------------------------------------------------
FirstRuleOnly(text, error_msg) ==
    IF HasNameError(error_msg) THEN Fix1(text, error_msg)
    ELSE IF Contains(error_msg, "IndexError: list index out of range")
    THEN Fix2(text, error_msg)
    ELSE IF Fix3(text, error_msg) # text THEN Fix3(text, error_msg)
    ELSE IF Contains(error_msg, "'bool' object has no attribute 'subs'")
    THEN Fix5(text, error_msg)
    ELSE IF \/ Contains(error_msg, "tuple indices must be integers")
            \/ Contains(error_msg, "list indices must be integers")
    THEN Fix6(text, error_msg)
    ELSE Fix7(text, error_msg)

C20_FirstRuleOnly ==
    [][(Executes /\ Repairs) =>
           current_code' =
               FixN(Fix4(FirstRuleOnly(current_code, runs'[Len(runs')].stderr)))]_vars

\* ------------------------------------------------------------------------
\* C21.  On a multiple-choice question, when the interval step or the
\* per-option symbolic step has identified an option that matches the
\* candidate, the call has returned at that step: a match exactly if the
\* option identified is the expected letter, otherwise a non-match naming
\* the option, and the numeric step and the symbolic comparison with the
\* expected option were not consulted.
\* ------------------------------------------------------------------------
C21_IdentifiedOptionFinal ==
    (chk.options # << >> /\ chk.identified # << >>) =>
        /\ chk.stage = "returned"
        /\ LastConsulted \in {"interval", "symbolic_each"}
        /\ \A k \in 1..Len(chk.consulted) :
               chk.consulted[k] \notin {"numeric", "symbolic_expected", "fail"}
        /\ chk.verdict[1] =
               (str_upper(chk.identified[1]) = str_upper(str_strip(chk.expected)))
        /\ ~chk.verdict[1] =>
               Contains(chk.verdict[2], "atched option " \o chk.identified[1]
                                        \o ", expected ")

\* C21 witness: the candidate 0.75 equals option B symbolically while A is
\* expected; the per-option symbolic step returned a non-match
C21_Witness ==
    /\ chk.stage = "returned"
    /\ chk.expected = "A"
    /\ chk.got = "0.75"
    /\ chk.identified = << "B" >>
    /\ chk.consulted = << "letter", "interval", "symbolic_each" >>
    /\ chk.verdict = << FALSE, "Symbolic matched option B, expected A" >>

\* the interval step identified option B while A was expected
C21_IntervalWitness ==
    /\ chk.stage = "returned"
    /\ chk.expected = "A"
    /\ chk.identified = << "B" >>
    /\ chk.consulted = << "letter", "interval" >>
    /\ chk.verdict[1] = FALSE

\* ------------------------------------------------------------------------
\* C22.  Where check_answer evaluates the candidate to a number, the value
\* it uses is the result of the symbolic evaluation whenever that
\* evaluation gave a value, the value 0 included; _try_float is used only
\* when the symbolic evaluation gave none.
\* ------------------------------------------------------------------------
C22_SymbolicValueUsed ==
    (/\ chk.options = << >>
     /\ \E k \in 1..Len(chk.consulted) : chk.consulted[k] = "numeric")
    => /\ chk.got_eval # NoVal => chk.got_value = chk.got_eval
       /\ chk.got_eval = NoVal => chk.got_value = _try_float(str_strip(chk.got))

\* ------------------------------------------------------------------------
\* C23.  A failure of a symbolic evaluation or comparison never leaves
\* check_answer as an exception: every call ends by returning a pair
\* (match, explanation).
\* ------------------------------------------------------------------------
C23_NoPropagation == chk.stage # "raised"

\* ------------------------------------------------------------------------
\* C24.  The text executed has every known-wrong identifier replaced by its
\* own counterpart: Simplify by simplify, Greater by Gt, Less by Lt,
\* GreaterEqual by Ge and LessEqual by Le.
\* ------------------------------------------------------------------------
OwnCounterparts(line) ==
    str_replace(str_replace(str_replace(str_replace(str_replace(line,
        "GreaterEqual", "Ge"), "LessEqual", "Le"), "Greater", "Gt"),
        "Less", "Lt"), "Simplify", "simplify")

C24_OwnCounterpart ==
    (Len(runs) = 1 /\ executed # None) =>
        executed = str_join([k \in 1..Len(DropAsserts(str_split(code))) |->
                       OwnCounterparts(FixCarets(DropAsserts(str_split(code))[k]))])

\* ------------------------------------------------------------------------
\* C25.  On a multiple-choice question, whatever letters the options use, a
\* candidate that consists of the expected letter, in either case, is
\* judged a match by the letter step; a standalone letter that differs from
\* the expected one gives no verdict at the letter step.
\* ------------------------------------------------------------------------
CandidateIsLetter == Len(str_strip(chk.got)) = 1 /\ IsLetter(str_strip(chk.got), 1)

C25_ExpectedLetterMatches ==
    (chk.options # << >> /\ chk.consulted # << >> /\ CandidateIsLetter) =>
        IF SameLower(str_strip(chk.got), str_strip(chk.expected))
        THEN /\ chk.stage = "returned"
             /\ chk.consulted = << "letter" >>
             /\ chk.verdict[1] = TRUE
        ELSE chk.consulted # << "letter" >> \/ chk.stage # "returned"

\* ------------------------------------------------------------------------
\* C26.  When the analytical or the executor call returns nothing, the
\* result of that question holds the error, correct = False and no code
\* was executed; the result is appended and main goes on with the next
\* question, so that a run that is not interrupted ends with one result
\* for every question loaded.
\* ------------------------------------------------------------------------
AgentFailed(kind) == kind \in {"analytical_failed", "executor_failed"}

C26_AgentFailureRecorded ==
    /\ [](\A i \in 1..Len(drv.results) :
              AgentFailed(drv.results[i]) =>
                  /\ ResultRecord(drv.results[i]).correct = FALSE
                  /\ Len(ResultRecord(drv.results[i]).errors) = 1
                  /\ ResultRecord(drv.results[i]).ran = FALSE)
    /\ [][(/\ Len(drv'.results) = Len(drv.results) + 1
           /\ AgentFailed(drv'.results[Len(drv'.results)]))
          => /\ drv.at \in {"analytical", "executor"}
             /\ drv'.at = "question_loop"
             /\ drv'.q = drv.q + 1
             /\ drv'.interrupted = drv.interrupted]_vars
    /\ []((drv.at = "done" /\ drv.signals = 0) =>
              (Len(drv.results) = drv.loaded /\ drv.started = drv.loaded))

\* C26 witness: the analytical call of the first question failed, and the
\* second question was evaluated to the end
C26_Witness ==
    /\ drv.at = "done"
    /\ drv.signals = 0
    /\ drv.results = << "analytical_failed", "correct" >>
    /\ drv.loaded = 2

\* ------------------------------------------------------------------------
\* C27.  Whenever the result has correct = True: a code block was extracted,
\* the controller returned through its success branch and through no other,
\* answer_got is the non-empty text extracted from the stdout of that
\* successful run, the errors list is empty, and correct was set by the
\* step that calls check_answer.
\* ------------------------------------------------------------------------
C27_CorrectMeansSuccess ==
    /\ [](result.correct =>
              /\ pc = "done"
              /\ result.has_code /\ code # None
              /\ outcome = {"success"}
              /\ Len(extracted) = 1
              /\ runs[Len(runs)] = extracted[1]
              /\ extracted[1].kind = "returned" /\ extracted[1].rc = 0
              /\ sympy_output = extracted[1].stdout
              /\ result.answer_got = extract_answer_from_output(extracted[1].stdout)
              /\ result.answer_got # None /\ result.answer_got # ""
              /\ result.errors = << >>)
    /\ [][(result'.correct /\ ~result.correct) =>
              (pc = "check" /\ pc' = "done"
               /\ result'.answer_got = result.answer_got)]_vars

\* C27 witness: a result found correct after one repaired failure
C27_Witness ==
    /\ pc = "done"
    /\ result.correct
    /\ Len(runs) = 2
    /\ n_fix = 1
    /\ extracted[1].stdout = "ODPOWIEDZ: [5]"

\* ------------------------------------------------------------------------
\* C28.  extract_answer_from_output never returns a none-equivalent token:
\* for every non-empty stdout handed to it, the value it returns is either
\* no answer or a text other than none, null, [], {} and the empty text,
\* compared without regard to case.
\* ------------------------------------------------------------------------
C28_NeverNoneToken ==
    \A i \in 1..Len(extracted) :
        \/ extract_answer_from_output(extracted[i].stdout) = None
        \/ ~IsNoneToken(extract_answer_from_output(extracted[i].stdout))

\* ------------------------------------------------------------------------
\* C29.  On an open-ended question check_answer reports no match on the
\* strength of an empty reference: when clean_latex_for_display(expected)
\* is the empty text and the candidate is not empty, the call does not
\* return the verdict of the substring step.
\* ------------------------------------------------------------------------
C29_EmptyReferenceNoMatch ==
    (/\ chk.stage = "returned"
     /\ chk.options = << >>
     /\ got_clean(chk) # ""
     /\ expected_plain(chk) = "")
    => ~(chk.verdict # << >> /\ chk.verdict[1] = TRUE
         /\ chk.consulted[Len(chk.consulted)] = "substring")

\* ------------------------------------------------------------------------
\* rag_service: the TF-IDF index (indexer.py) behind the handlers of main.py
\*
\* rag.up           the service process is running
\*     initialized  _index._initialized (is_ready)
\*     matrix       _index.tfidf_matrix: its number of rows, or NoVal
\*     chunks       len(_index.chunks)
\*     index_file   tfidf_index.pkl, chunks_file: chunks.pkl
\*     raised       the last handler ended with an exception
\*     addressed    the row indices the last query looked up in chunks
\*     index_error  the last query raised IndexError on chunks[idx]
\* ------------------------------------------------------------------------
MaxChunks == 3

MaxTopK == 2

\* a cache file: missing, written whole (n rows or entries), or opened for
\* writing and not completed
NoFile == [exists |-> FALSE, valid |-> FALSE, n |-> 0]

Written(n) == [exists |-> TRUE, valid |-> TRUE, n |-> n]

Truncated == [exists |-> TRUE, valid |-> FALSE, n |-> 0]

\* TFIDFIndex(): the object of a process that has just started
TFIDFIndex_init(r) ==
    [r EXCEPT !.initialized = FALSE, !.matrix = NoVal, !.chunks = 0,
              !.raised = FALSE, !.addressed = {}, !.index_error = FALSE]

\* what load_all_chunks and fit_transform do in one call of build: the
\* loader raises or returns n chunks; fit_transform raises or returns a
\* matrix of n rows (it raises on fewer than two documents: empty
\* vocabulary, or max_df * n below min_df)
BuildInputs ==
    {b \in [loads : BOOLEAN, n : 0..MaxChunks, fits : BOOLEAN] :
        /\ b.fits => (b.loads /\ b.n >= 2)
        /\ ~b.loads => b.n = 0}

\* TFIDFIndex.build()
TFIDFIndex_build(r, b) ==
    IF ~b.loads THEN [r EXCEPT !.raised = TRUE]
    ELSE IF ~b.fits THEN [r EXCEPT !.chunks = b.n, !.raised = TRUE]
    ELSE [r EXCEPT !.chunks = b.n, !.matrix = Val(b.n), !.initialized = TRUE]

\* where a save stops: it completes, or the write of the first file fails,
\* or it ends after the first file is closed and before the second is
\* opened, or the write of the second file fails
SaveCuts == {"none", "index_write", "between", "chunks_write"}

\* TFIDFIndex.save()
TFIDFIndex_save(r, cut) ==
    CASE cut = "none" ->
             [r EXCEPT !.index_file = Written(r.matrix[1]),
                       !.chunks_file = Written(r.chunks)]
      [] cut = "index_write" ->
             [r EXCEPT !.index_file = Truncated, !.raised = TRUE]
      [] cut = "between" ->
             [r EXCEPT !.index_file = Written(r.matrix[1]), !.raised = TRUE]
      [] cut = "chunks_write" ->
             [r EXCEPT !.index_file = Written(r.matrix[1]),
                       !.chunks_file = Truncated, !.raised = TRUE]

\* where a load stops: nowhere, or reading the first file raises, or
\* reading the second file raises
LoadCuts == {"none", "index_read", "chunks_read"}

\* the first with-block of load completes
IndexRead(r, io) ==
    /\ r.index_file.exists /\ r.chunks_file.exists
    /\ r.index_file.valid /\ io # "index_read"

\* load returns True
LoadSucceeds(r, io) ==
    IndexRead(r, io) /\ r.chunks_file.valid /\ io = "none"

\* TFIDFIndex.load(): the object after the call
TFIDFIndex_load(r, io) ==
    IF LoadSucceeds(r, io)
    THEN [r EXCEPT !.matrix = Val(r.index_file.n), !.chunks = r.chunks_file.n,
                   !.initialized = TRUE]
    ELSE IF IndexRead(r, io)
    THEN [r EXCEPT !.matrix = Val(r.index_file.n)]
    ELSE r

\* _ensure_index(): load, or else build and save, unless the index is ready
EnsureIndex(r, io, b, cut) ==
    IF r.initialized THEN r
    ELSE IF LoadSucceeds(r, io) THEN TFIDFIndex_load(r, io)
    ELSE IF TFIDFIndex_build(TFIDFIndex_load(r, io), b).raised
    THEN TFIDFIndex_build(TFIDFIndex_load(r, io), b)
    ELSE TFIDFIndex_save(TFIDFIndex_build(TFIDFIndex_load(r, io), b), cut)

\* the row indices query can pick: at most top_k rows of the matrix
TopIndices(r, top_k) ==
    {S \in SUBSET (0..(r.matrix[1] - 1)) : Cardinality(S) <= top_k}

\* TFIDFIndex.query(): chunks[idx] for every index picked
TFIDFIndex_query(r, top) ==
    [r EXCEPT !.addressed = top,
              !.index_error = (\E idx \in top : idx >= r.chunks),
              !.raised = (\E idx \in top : idx >= r.chunks)]

\* the state a handler starts from
Handling(r) ==
    [r EXCEPT !.raised = FALSE, !.addressed = {}, !.index_error = FALSE]

\* the process ends: the object is lost, the files stay
Exit(r) == [TFIDFIndex_init(r) EXCEPT !.up = FALSE]

RagInit ==
    [up |-> FALSE, initialized |-> FALSE, matrix |-> NoVal, chunks |-> 0,
     index_file |-> NoFile, chunks_file |-> NoFile, raised |-> FALSE,
     addressed |-> {}, index_error |-> FALSE]

IndexInit ==
    /\ pc = "rag"
    /\ SYMPY_AVAILABLE = FALSE
    /\ result = [correct |-> FALSE, answer_got |-> None, has_code |-> FALSE,
                 code_valid |-> FALSE, analytical_ok |-> FALSE, errors |-> << >>]
    /\ code = None
    /\ current_code = None
    /\ attempt = 0
    /\ sympy_output = None
    /\ executed = None
    /\ runs = << >>
    /\ n_fix = 0
    /\ extracted = << >>
    /\ outcome = {}
    /\ chk = ChkIdle
    /\ drv = DrvIdle
    /\ rag = RagInit

rag_frame == << pc, SYMPY_AVAILABLE, result, code, ctl_vars, chk, drv >>

\* lifespan: the process starts and preloads the index; an exception ends
\* the start-up
Lifespan ==
    /\ ~rag.up
    /\ \E io \in LoadCuts, b \in BuildInputs, cut \in SaveCuts :
           rag' = IF EnsureIndex(rag, io, b, cut).raised
                  THEN Exit(EnsureIndex(rag, io, b, cut))
                  ELSE [EnsureIndex(rag, io, b, cut) EXCEPT !.up = TRUE]
    /\ UNCHANGED rag_frame

\* POST /query
QueryHandler ==
    /\ rag.up
    /\ \E io \in LoadCuts, b \in BuildInputs, cut \in SaveCuts,
          top_k \in 1..MaxTopK :
           IF EnsureIndex(Handling(rag), io, b, cut).raised
           THEN rag' = EnsureIndex(Handling(rag), io, b, cut)
           ELSE \E top \in TopIndices(EnsureIndex(Handling(rag), io, b, cut), top_k) :
                    rag' = TFIDFIndex_query(
                               EnsureIndex(Handling(rag), io, b, cut), top)
    /\ UNCHANGED rag_frame

\* POST /rebuild: build() and save(); the process may be stopped while
\* the save is under way
RebuildHandler ==
    /\ rag.up
    /\ \E b \in BuildInputs, cut \in SaveCuts, killed \in BOOLEAN :
           rag' = IF TFIDFIndex_build(Handling(rag), b).raised
                  THEN TFIDFIndex_build(Handling(rag), b)
                  ELSE IF killed /\ cut # "none"
                  THEN Exit(TFIDFIndex_save(TFIDFIndex_build(Handling(rag), b), cut))
                  ELSE TFIDFIndex_save(TFIDFIndex_build(Handling(rag), b), cut)
    /\ UNCHANGED rag_frame

\* the process is stopped between two requests
Shutdown ==
    /\ rag.up
    /\ rag' = Exit(rag)
    /\ UNCHANGED rag_frame

IndexNext ==
    \/ Lifespan
    \/ QueryHandler
    \/ RebuildHandler
    \/ Shutdown

IndexSpec == IndexInit /\ [][IndexNext]_vars

\* ------------------------------------------------------------------------
\* C30.  Whenever the index reports is_ready, its matrix has one row per
\* entry of its chunk list, and no query looks up an index outside the
\* chunk list; after any sequence of build, save, load and rebuild.
\* ------------------------------------------------------------------------
C30_RowsMatchChunks ==
    (rag.up /\ rag.initialized) =>
        /\ rag.matrix = Val(rag.chunks)
        /\ \A idx \in rag.addressed : idx < rag.chunks
        /\ ~rag.index_error

====
